---- MODULE Spec2Model ----
(***************************************************************************)
(* Atlas VPN panel: transport/obfuscation policy, configuration synthesis  *)
(* and readiness gate, modelled from backend/core/openvpn.py,              *)
(* backend/core/obfuscation_manager.py and the routers that call them.     *)
(*                                                                         *)
(* Text is modelled as sequences of lines, a line as a sequence of tokens  *)
(* (a directive name followed by its arguments, joined by single blanks).  *)
(* Python's None is NoneStr for text fields and NoneInt for numeric ones.  *)
(***************************************************************************)
EXTENDS Integers, Sequences, FiniteSets, TLC

VARIABLES
    db,        \* the persisted openvpn_settings row
    general,   \* the persisted general_settings row
    machine,   \* the operating system: firewall rules, server.conf, running service
    out        \* the result of the last operation

vars == <<db, general, machine, out>>

NoneStr == "<None>"
NoneInt == 0 - 1

(***************************************************************************)
(* Program constants                                                       *)
(***************************************************************************)
DefaultPort == 1194
ObfuscationPort == 443
DefaultProxyPort == 8080
DefaultSocksPort == 1080
DefaultStunnelPort == 443
DefaultWsPort == 8080
DefaultServerAddress == "YOUR_SERVER_IP"

(***************************************************************************)
(* Python idioms                                                           *)
(***************************************************************************)
\* str.strip() on the text values of the model: blank text strips to "".
Strip(s) == IF s \in {"", " "} THEN "" ELSE s

\* (x or "").strip()
StrOrEmpty(x) == IF x = NoneStr THEN "" ELSE Strip(x)

\* x or d, for numbers: None and 0 are falsy.
IntOr(x, d) == IF x = NoneInt \/ x = 0 THEN d ELSE x

\* a or b, for text: "" is falsy.
FirstNonEmpty(a, b) == IF a # "" THEN a ELSE b

Modes == {"standard", "stealth", "http_proxy_basic", "http_proxy_advanced",
          "socks5_proxy_injection", "tls_tunnel", "websocket_cdn"}
Protocols == {"udp", "tcp", "udp6", "tcp6"}
TlsModes == {"tls-crypt", "tls-auth", "none"}

\* str(settings.get("obfuscation_mode") or "standard").strip().lower()
NormalizeMode(m) == IF m = NoneStr \/ Strip(m) = "" THEN "standard" ELSE m

(***************************************************************************)
(* _extract_remote_hostname: a CDN value is a sequence of URL parts, e.g.  *)
(* <<"https", "://", "cdn.example.com", ":", "8443", "/", "ws">>; the      *)
(* scheme, the port and the path are stripped.                             *)
(***************************************************************************)
RECURSIVE DropScheme(_)
DropScheme(u) ==
    IF u = <<>> THEN <<>>
    ELSE IF \E i \in 1..Len(u) : u[i] = "://"
         THEN IF Head(u) = "://" THEN Tail(u) ELSE DropScheme(Tail(u))
         ELSE u

ExtractRemoteHostname(u) ==
    LET rest == DropScheme(u)
    IN IF rest = <<>> \/ Head(rest) \in {":", "/"} THEN "" ELSE Head(rest)

\* a variant that keeps the protocol of the settings in every mode
EffectiveProtocolKept(mode, resolved_protocol) == resolved_protocol

\* effective_protocol = "tcp" if obfuscation_mode != "standard" else resolved_protocol
EffectiveProtocol(mode, resolved_protocol) ==
    IF mode # "standard" THEN "tcp" ELSE resolved_protocol

(***************************************************************************)
(* _build_client_transport_directives: the transport decision.             *)
(***************************************************************************)
RemoteLine(host, port) == <<"remote", host, ToString(port)>>

\* a variant whose fall-through answers with the obfuscation port
StandardDecisionOnObfuscationPort(server_address, default_port, default_protocol) ==
    [protocol |-> default_protocol, remote |-> RemoteLine(server_address, ObfuscationPort),
     directives |-> <<>>]

\* the fall-through: return default_protocol, f"remote {server_address} {default_port}", []
StandardDecision(server_address, default_port, default_protocol) ==
    [protocol |-> default_protocol, remote |-> RemoteLine(server_address, default_port),
     directives |-> <<>>]

BuildClientTransportDirectives(server_address, default_port, default_protocol, o) ==
    LET mode == NormalizeMode(o.obfuscation_mode)
        proxy_server == StrOrEmpty(o.proxy_server)
        proxy_address == StrOrEmpty(o.proxy_address)
        proxy_target == FirstNonEmpty(proxy_server, FirstNonEmpty(proxy_address, server_address))
        proxy_port == IntOr(o.proxy_port, DefaultProxyPort)
        spoofed_host == StrOrEmpty(o.spoofed_host)
        socks_server == StrOrEmpty(o.socks_server)
        stunnel_port == IntOr(o.stunnel_port, DefaultStunnelPort)
        sni_domain == StrOrEmpty(o.sni_domain)
        ws_path == FirstNonEmpty(StrOrEmpty(o.ws_path), "/stream")
        ws_port == IntOr(o.ws_port, DefaultWsPort)
        cdn_host == ExtractRemoteHostname(o.cdn_domain)
        header == IF spoofed_host # ""
                  THEN << <<"http-proxy-option", "CUSTOM-HEADER", "Host", spoofed_host>> >>
                  ELSE <<>>
        http_proxy == << <<"http-proxy", proxy_target, ToString(proxy_port)>>,
                         <<"http-proxy-retry">> >>
    IN CASE mode = "stealth" ->
              [protocol |-> "tcp", remote |-> RemoteLine(server_address, ObfuscationPort),
               directives |-> << <<"http-proxy-retry">> >> \o header]
         [] mode = "http_proxy_basic" ->
              [protocol |-> "tcp", remote |-> RemoteLine(server_address, ObfuscationPort),
               directives |-> http_proxy]
         [] mode = "http_proxy_advanced" ->
              [protocol |-> "tcp", remote |-> RemoteLine(server_address, ObfuscationPort),
               directives |-> http_proxy \o header]
         [] mode = "socks5_proxy_injection" ->
              [protocol |-> "tcp", remote |-> RemoteLine(server_address, ObfuscationPort),
               directives |-> << <<"socks-proxy", FirstNonEmpty(socks_server, proxy_target),
                                   ToString(IntOr(o.socks_port, DefaultSocksPort))>>,
                                 <<"socks-proxy-retry">> >>]
         [] mode = "tls_tunnel" ->
              [protocol |-> "tcp", remote |-> RemoteLine("127.0.0.1", stunnel_port),
               directives |-> << <<"#", "TLS tunnel mode: run local Stunnel client before connecting.">> >>
                              \o (IF sni_domain # ""
                                  THEN << <<"#", "TLS SNI domain hint:", sni_domain>> >>
                                  ELSE <<>>)]
         [] mode = "websocket_cdn" ->
              [protocol |-> "tcp",
               remote |-> RemoteLine(FirstNonEmpty(cdn_host, server_address), ObfuscationPort),
               directives |-> << <<"#", "WebSocket path hint:", ws_path>>,
                                 <<"#", "Local WebSocket port hint:", ToString(ws_port)>> >>]
         [] OTHER -> StandardDecision(server_address, default_port, default_protocol)

(***************************************************************************)
(* Text helpers                                                            *)
(***************************************************************************)
\* str.lower() on the tokens of the model.
Lower(tok) == IF tok = "COMPRESS" THEN "compress" ELSE tok

\* the directive names a token contains as a substring (case-sensitive)
Substrings(tok) ==
    CASE tok \in {"compress", "compress.example.com"} -> {"compress"}
      [] tok \in {"comp-lzo", "sndbuf", "rcvbuf", "block-outside-dns", "explicit-exit-notify",
                  "tcp-nodelay", "fast-io"} -> {tok}
      [] OTHER -> {}

\* w in line: the text of the line contains w
Contains(line, w) == \E i \in 1..Len(line) : w \in Substrings(line[i])

\* w in line.lower()
ContainsLower(line, w) == \E i \in 1..Len(line) : w \in Substrings(Lower(line[i]))

\* "comp-lzo" in line.lower() or "compress" in line.lower()
MentionsCompression(line) == ContainsLower(line, "comp-lzo") \/ ContainsLower(line, "compress")

\* line == d or line.startswith(d + " "), after lower().
StartsWithDirective(line, directives) == line # <<>> /\ Lower(line[1]) \in directives

IsComment(line) == line # <<>> /\ line[1] = "#"

If(c, lines) == IF c THEN lines ELSE <<>>

\* "tcp" in protocol / "udp" in protocol
IsTcp(protocol) == protocol \in {"tcp", "tcp6"}
IsUdp(protocol) == protocol \in {"udp", "udp6"}

\* the certificate and key material embedded in a client configuration
PemBlocks(tls_mode) ==
    << <<>>, <<"<ca>">>, <<"CA CERTIFICATE">>, <<"</ca>">>,
       <<>>, <<"<cert>">>, <<"CLIENT CERTIFICATE">>, <<"</cert>">>,
       <<>>, <<"<key>">>, <<"CLIENT KEY">>, <<"</key>">> >>
    \o (CASE tls_mode = "tls-crypt" -> << <<>>, <<"<tls-crypt>">>, <<"TA KEY">>, <<"</tls-crypt>">> >>
          [] tls_mode = "tls-auth" -> << <<>>, <<"<tls-auth>">>, <<"TA KEY">>, <<"</tls-auth>">> >>
          [] OTHER -> <<>>)

\* resolved_server: the caller's address, else the persisted one, else the placeholder
ResolvedServer(server_address, g) ==
    FirstNonEmpty(StrOrEmpty(server_address),
                  FirstNonEmpty(StrOrEmpty(g.server_address), DefaultServerAddress))

\* int(server_port if server_port is not None else openvpn_settings.get("port", 1194))
ResolvedPort(server_port, s) == IF server_port # NoneInt THEN server_port ELSE s.port

\* str(protocol or openvpn_settings.get("protocol", "udp")).strip().lower()
ResolvedProtocol(protocol, s) == IF protocol # NoneStr /\ protocol # "" THEN protocol ELSE s.protocol

\* the source is an unresolved merge of two revisions; a build is one of them
Revisions == {"HEAD", "feature"}

\* _safe_int(x) followed by a truth test: None and 0 do not count
Truthy(n) == n # NoneInt /\ n # 0

\* data-ciphers, data-ciphers-fallback, auth, tls-version-min
CryptoLines(s) ==
    LET ciphers == IF StrOrEmpty(s.data_ciphers) = ""
                   THEN "AES-256-GCM:AES-128-GCM:CHACHA20-POLY1305" ELSE s.data_ciphers
        fallback == IF ciphers = "AES-256-GCM:AES-128-GCM:CHACHA20-POLY1305"
                    THEN "AES-256-GCM" ELSE ciphers
        auth_digest == FirstNonEmpty(StrOrEmpty(s.auth_digest), "SHA256")
        tls_version_min == FirstNonEmpty(StrOrEmpty(s.tls_version_min), "1.2")
    IN << <<"data-ciphers", ciphers>>, <<"data-ciphers-fallback", fallback>>,
          <<"auth", auth_digest>>, <<"tls-version-min", tls_version_min>> >>

\* str(openvpn_settings.get("tls_mode") or "tls-crypt").strip().lower()
TlsModeOf(s) == FirstNonEmpty(StrOrEmpty(s.tls_mode), "tls-crypt")

RedirectGatewayLines(s) ==
    If(s.redirect_gateway,
       IF StrOrEmpty(s.ipv6_network) # "" /\ s.ipv6_prefix # NoneInt
       THEN << <<"redirect-gateway", "def1", "ipv6", "bypass-dhcp">> >>
       ELSE << <<"redirect-gateway", "def1", "bypass-dhcp">> >>)

DnsLines(s) ==
    If(StrOrEmpty(s.primary_dns) # "", << <<"dhcp-option", "DNS", s.primary_dns>> >>)
    \o If(StrOrEmpty(s.secondary_dns) # "", << <<"dhcp-option", "DNS", s.secondary_dns>> >>)

\* push_custom_routes is a text of route lines
RouteLines(s) ==
    LET routes == SelectSeq(s.push_custom_routes, LAMBDA r : r # <<>>)
    IN [i \in 1..Len(routes) |-> <<"route">> \o routes[i]]

AuthLines(s) ==
    << <<>>, <<"auth-user-pass">> >> \o If(s.enable_auth_nocache, << <<"auth-nocache">> >>)

ReplaceAt(lines, i, line) == [k \in 1..Len(lines) |-> IF k = i THEN line ELSE lines[k]]

(***************************************************************************)
(* _generate_apple_config: the iOS/macOS client configuration.             *)
(***************************************************************************)
BlockedDirectives ==
    {"sndbuf", "rcvbuf", "comp-lzo", "compress", "explicit-exit-notify", "block-outside-dns"}

\* the test both the custom-blob loop and the final sanitize pass apply
AppleBlocked(line) ==
    line # <<>> /\ ~IsComment(line) /\ StartsWithDirective(line, BlockedDirectives)

\* the loop over the lines of the custom blob: blank lines, comments and
\* blocked directives are dropped
CustomAppleFilter(lines) ==
    SelectSeq(lines, LAMBDA l : l # <<>> /\ ~IsComment(l)
                                /\ ~StartsWithDirective(l, BlockedDirectives))

\* a sanitize pass that stops after the first line it dropped
SanitizePassFirstOnly(lines) ==
    LET blocked == {i \in 1..Len(lines) : AppleBlocked(lines[i])}
        first == CHOOSE i \in blocked : \A j \in blocked : i <= j
    IN IF blocked = {} THEN lines
       ELSE [k \in 1..(Len(lines) - 1) |-> IF k < first THEN lines[k] ELSE lines[k + 1]]

\* the final strict sanitize pass over all lines
SanitizePass(lines) == SelectSeq(lines, LAMBDA l : ~AppleBlocked(l))

AppleCore(rev, s, client_name) ==
    << <<"#", "Atlas VPN - OpenVPN Client Configuration">>, <<"#", "OS: iOS/macOS">>,
       <<"#", "Client:", client_name>>, <<"#", "Generated:">>, <<>>,
       <<"client">>, <<"dev", s.device_type>> >>
    \o (IF rev = "HEAD"
        THEN If(s.resolv_retry_mode = "infinite", << <<"resolv-retry", "infinite">> >>)
             \o << <<"nobind">> >>
             \o If(s.persist_key, << <<"persist-key">> >>)
             \o If(s.persist_tun, << <<"persist-tun">> >>)
        ELSE << <<"resolv-retry", "infinite">>, <<"nobind">>, <<"persist-key">>, <<"persist-tun">> >>)
    \o << <<"remote-cert-tls", "server">>, <<"verb", "3">> >>

AppleObfuscationLines(s, resolved_server) ==
    LET mode == NormalizeMode(s.obfuscation_mode)
        proxy_target == FirstNonEmpty(StrOrEmpty(s.proxy_server),
                                      FirstNonEmpty(StrOrEmpty(s.proxy_address), resolved_server))
        proxy_port == IntOr(s.proxy_port, DefaultProxyPort)
        spoofed_host == StrOrEmpty(s.spoofed_host)
        header == If(spoofed_host # "",
                     << <<"http-proxy-option", "CUSTOM-HEADER", "Host", spoofed_host>> >>)
        http_proxy == << <<"http-proxy", proxy_target, ToString(proxy_port)>>,
                         <<"http-proxy-retry">> >>
    IN CASE mode = "stealth" -> http_proxy \o header
         [] mode = "http_proxy_basic" -> http_proxy
         [] mode = "http_proxy_advanced" -> http_proxy \o header
         [] mode = "socks5_proxy_injection" ->
              << <<"socks-proxy", FirstNonEmpty(StrOrEmpty(s.socks_server), proxy_target),
                   ToString(IntOr(s.socks_port, DefaultSocksPort))>>,
                 <<"socks-proxy-retry">> >>
         [] mode = "tls_tunnel" ->
              << <<"#", "TLS tunnel mode: run local Stunnel client before connecting.">> >>
              \o If(StrOrEmpty(s.sni_domain) # "",
                    << <<"#", "TLS SNI domain hint:", s.sni_domain>> >>)
         [] mode = "websocket_cdn" ->
              << <<"#", "WebSocket path hint:", FirstNonEmpty(StrOrEmpty(s.ws_path), "/stream")>>,
                 <<"#", "Local WebSocket port hint:", ToString(IntOr(s.ws_port, DefaultWsPort))>> >>
         [] OTHER -> <<>>

AppleCustomLines(s, os_type) ==
    LET custom_apple == IF os_type \in {"mac", "macos"} THEN s.custom_mac ELSE s.custom_ios
        kept == CustomAppleFilter(custom_apple)
    IN If(\E i \in 1..Len(custom_apple) : custom_apple[i] # <<>>,
          << <<>>, <<"#", "Custom Apple Directives">> >> \o kept)

GenerateAppleConfig(rev, client_name, s, g, server_address, server_port, protocol, os_type) ==
    LET resolved_protocol == ResolvedProtocol(protocol, s)
        mode == NormalizeMode(s.obfuscation_mode)
        effective_protocol == EffectiveProtocol(mode, resolved_protocol)
        resolved_server == ResolvedServer(server_address, g)
        resolved_port == ResolvedPort(server_port, s)
        tls_mode == TlsModeOf(s)
        core == AppleCore(rev, s, client_name)
                \o If(effective_protocol # "", << <<"proto", effective_protocol>> >>)
                \o << IF mode = "stealth" THEN RemoteLine(resolved_server, ObfuscationPort)
                      ELSE RemoteLine(resolved_server, resolved_port) >>
                \o CryptoLines(s)
                \o If(tls_mode = "tls-auth", << <<"key-direction", "1">> >>)
        verbose == IF Truthy(s.verbosity) /\ s.verbosity # 3
                   THEN ReplaceAt(core, Len(core) - 8, <<"verb", ToString(s.verbosity)>>)
                   ELSE core
        lines == verbose
                 \o If(Truthy(s.tun_mtu), << <<"tun-mtu", ToString(s.tun_mtu)>> >>)
                 \o If(Truthy(s.mssfix), << <<"mssfix", ToString(s.mssfix)>> >>)
                 \o If(Truthy(s.keepalive_ping) /\ Truthy(s.keepalive_timeout),
                       << <<"keepalive", ToString(s.keepalive_ping), ToString(s.keepalive_timeout)>> >>)
                 \o If(s.tcp_nodelay /\ IsTcp(effective_protocol), << <<"tcp-nodelay">> >>)
                 \o RedirectGatewayLines(s) \o DnsLines(s) \o RouteLines(s)
                 \o AppleObfuscationLines(s, resolved_server)
                 \o AppleCustomLines(s, os_type)
                 \o AuthLines(s)
                 \o PemBlocks(tls_mode)
    IN SanitizePass(lines) \o << <<>> >>

(***************************************************************************)
(* _generate_android_config: the Android client configuration.             *)
(***************************************************************************)
ObfuscationSettings(s) ==
    [obfuscation_mode |-> s.obfuscation_mode, proxy_server |-> s.proxy_server,
     proxy_address |-> s.proxy_address, proxy_port |-> s.proxy_port,
     spoofed_host |-> s.spoofed_host, socks_server |-> s.socks_server,
     socks_port |-> s.socks_port, stunnel_port |-> s.stunnel_port,
     sni_domain |-> s.sni_domain, cdn_domain |-> s.cdn_domain,
     ws_path |-> s.ws_path, ws_port |-> s.ws_port]

\* the loop that copies the obfuscation directives of the decision
FilteredObfuscationLines(directives) ==
    SelectSeq(directives, LAMBDA l : l # <<>> /\ ~MentionsCompression(l))

\* the loop over the lines of the custom blob of the Android builder
CustomAndroidFilter(lines) ==
    SelectSeq(lines, LAMBDA l : l # <<>> /\ ~IsComment(l) /\ ~MentionsCompression(l))

\* the loop that copies a custom blob of the Android and the generic builder
FilteredCustomLines(blob, title) ==
    If(\E i \in 1..Len(blob) : blob[i] # <<>>,
       << <<>>, <<"#", title>> >> \o CustomAndroidFilter(blob))

GenerateAndroidConfig(client_name, s, g, server_address, server_port, protocol) ==
    LET resolved_protocol == ResolvedProtocol(protocol, s)
        mode == NormalizeMode(s.obfuscation_mode)
        effective_protocol == EffectiveProtocol(mode, resolved_protocol)
        resolved_server == ResolvedServer(server_address, g)
        resolved_port == ResolvedPort(server_port, s)
        d == BuildClientTransportDirectives(resolved_server, resolved_port, effective_protocol,
                                            ObfuscationSettings(s))
        is_udp == IsUdp(d.protocol)
        tls_mode == TlsModeOf(s)
    IN << <<"#", "Atlas VPN - OpenVPN Client Configuration">>, <<"#", "OS: ANDROID">>,
          <<"#", "Client:", client_name>>, <<"#", "Generated:">>, <<>>,
          <<"client">>, <<"dev", s.device_type>>, <<"proto", d.protocol>>, d.remote,
          <<"resolv-retry", "infinite">>, <<"nobind">> >>
       \o If(s.persist_key, << <<"persist-key">> >>)
       \o If(s.persist_tun, << <<"persist-tun">> >>)
       \o << <<"remote-cert-tls", "server">>, <<"verb", "3">> >>
       \o CryptoLines(s)
       \o If(tls_mode = "tls-auth", << <<"key-direction", "1">> >>)
       \o If(Truthy(s.tun_mtu), << <<"tun-mtu", ToString(s.tun_mtu)>> >>)
       \o If(Truthy(s.mssfix), << <<"mssfix", ToString(s.mssfix)>> >>)
       \o If(s.sndbuf # NoneInt, << <<"sndbuf", ToString(s.sndbuf)>> >>)
       \o If(s.rcvbuf # NoneInt, << <<"rcvbuf", ToString(s.rcvbuf)>> >>)
       \o If(Truthy(s.keepalive_ping) /\ Truthy(s.keepalive_timeout),
             << <<"keepalive", ToString(s.keepalive_ping), ToString(s.keepalive_timeout)>> >>)
       \o If(s.tcp_nodelay /\ IsTcp(d.protocol), << <<"tcp-nodelay">> >>)
       \o If(s.fast_io /\ is_udp, << <<"fast-io">> >>)
       \o If(Truthy(s.explicit_exit_notify) /\ is_udp,
             << <<"explicit-exit-notify", ToString(s.explicit_exit_notify)>> >>)
       \o RedirectGatewayLines(s) \o DnsLines(s) \o RouteLines(s)
       \o FilteredObfuscationLines(d.directives)
       \o FilteredCustomLines(s.custom_android, "Custom ANDROID Directives")
       \o AuthLines(s)
       \o PemBlocks(tls_mode)
       \o << <<>> >>

(***************************************************************************)
(* _load_runtime_settings: the persisted rows as the dictionaries the      *)
(* generators read.  Only the keys of openvpn_defaults are copied, so the  *)
(* per-platform custom blobs of the row never reach the dictionary.        *)
(***************************************************************************)
NoBlob == <<>>

LoadRuntimeSettings(row, grow) ==
    [openvpn |-> [row EXCEPT !.custom_ios = NoBlob, !.custom_android = NoBlob,
                             !.custom_windows = NoBlob, !.custom_mac = NoBlob],
     general |-> [server_address |->
                      FirstNonEmpty(StrOrEmpty(grow.server_address),
                                    FirstNonEmpty(StrOrEmpty(grow.public_ipv4_address),
                                                  DefaultServerAddress)),
                  public_ipv4_address |->
                      IF StrOrEmpty(grow.public_ipv4_address) = "" THEN NoneStr
                      ELSE grow.public_ipv4_address]]

(***************************************************************************)
(* generate_client_config: the entry point of client synthesis.  iOS and   *)
(* macOS go to the Apple generator, Android to the Android generator, any  *)
(* other platform to the generic builder.  An exception yields None.       *)
(***************************************************************************)
NoConfig == << <<"<None>">> >>

\* the loop over the lines of the custom blob of the generic builder
CustomGenericFilter(lines) == SelectSeq(lines, LAMBDA l : l # <<>> /\ ~MentionsCompression(l))

\* the custom blob loop of the generic builder: comment lines are kept
GenericCustomLines(s, os_name) ==
    LET blob == CASE os_name = "ios" -> s.custom_ios
                  [] os_name = "android" -> s.custom_android
                  [] os_name = "windows" -> s.custom_windows
                  [] os_name \in {"mac", "macos"} -> s.custom_mac
                  [] OTHER -> NoBlob
        title == IF os_name = "windows" THEN "Custom WINDOWS Directives"
                 ELSE "Custom Directives"
    IN If(\E i \in 1..Len(blob) : blob[i] # <<>>,
          << <<>>, <<"#", title>> >> \o CustomGenericFilter(blob))

\* "remote " not in config and "client" not in config
MissingCoreDirectives(lines) ==
    /\ ~\E i \in 1..Len(lines) : Len(lines[i]) > 1 /\ lines[i][1] = "remote"
    /\ ~\E i \in 1..Len(lines) : lines[i] = <<"client">>

\* Stage 3 of the generic builder: the exception raised for a text without
\* core directives is caught by the builder itself, which returns None
FinalSanityCheck(lines) == IF MissingCoreDirectives(lines) THEN NoConfig ELSE lines

\* the builder for every platform that is neither Apple nor Android.  On the
\* HEAD side of the merge os_name is never bound, so the lookup of the custom
\* blob raises NameError and the entry point returns None.
GenerateGenericConfig(rev, client_name, s, g, server_address, server_port, protocol, os_type) ==
    LET resolved_port == ResolvedPort(server_port, s)
        resolved_protocol == ResolvedProtocol(protocol, s)
        mode == NormalizeMode(s.obfuscation_mode)
        effective_protocol == EffectiveProtocol(mode, resolved_protocol)
        resolved_server_address == ResolvedServer(server_address, g)
        tls_mode == TlsModeOf(s)
        d == BuildClientTransportDirectives(resolved_server_address, resolved_port,
                                            effective_protocol, ObfuscationSettings(s))
        os_name == os_type
        is_windows == os_name = "windows"
        is_tcp == IsTcp(d.protocol)
        is_udp == IsUdp(d.protocol)
        lines ==
            << <<"#", "Atlas VPN - OpenVPN Client Configuration">>,
               <<"#", "Client:", client_name>>, <<"#", "Generated:">>, <<>>,
               <<"client">>, <<"dev", s.device_type>>, <<"proto", d.protocol>>, d.remote,
               <<"resolv-retry", "infinite">>, <<"nobind">>, <<"persist-key">>,
               <<"persist-tun">>, <<"remote-cert-tls", "server">>, <<"verb", "3">> >>
            \o CryptoLines(s)
            \o If(tls_mode = "tls-auth", << <<"key-direction", "1">> >>)
            \o If(Truthy(s.tun_mtu), << <<"tun-mtu", ToString(s.tun_mtu)>> >>)
            \o If(Truthy(s.mssfix), << <<"mssfix", ToString(s.mssfix)>> >>)
            \o If(Truthy(s.sndbuf), << <<"sndbuf", ToString(s.sndbuf)>> >>)
            \o If(Truthy(s.rcvbuf), << <<"rcvbuf", ToString(s.rcvbuf)>> >>)
            \o If(Truthy(s.keepalive_ping) /\ Truthy(s.keepalive_timeout),
                  << <<"keepalive", ToString(s.keepalive_ping), ToString(s.keepalive_timeout)>> >>)
            \o If(s.tcp_nodelay /\ is_tcp, << <<"tcp-nodelay">> >>)
            \o If(Truthy(s.explicit_exit_notify) /\ is_udp,
                  << <<"explicit-exit-notify", ToString(s.explicit_exit_notify)>> >>)
            \o RedirectGatewayLines(s) \o DnsLines(s) \o RouteLines(s)
            \o If(is_windows, << <<"block-outside-dns">> >>)
            \o FilteredObfuscationLines(d.directives)
            \o AuthLines(s)
            \o PemBlocks(tls_mode)
            \o GenericCustomLines(s, os_name)
            \o << <<>> >>
    IN IF rev = "HEAD" THEN NoConfig ELSE FinalSanityCheck(lines)

GenerateClientConfigText(rev, row, grow, client_name, server_address, server_port, protocol, os_type) ==
    LET loaded == LoadRuntimeSettings(row, grow)
    IN CASE os_type \in {"ios", "mac", "macos"} ->
              GenerateAppleConfig(rev, client_name, loaded.openvpn, loaded.general,
                                  server_address, server_port, protocol, os_type)
         [] os_type = "android" ->
              GenerateAndroidConfig(client_name, loaded.openvpn, loaded.general,
                                    server_address, server_port, protocol)
         [] OTHER ->
              GenerateGenericConfig(rev, client_name, loaded.openvpn, loaded.general,
                                    server_address, server_port, protocol, os_type)

(***************************************************************************)
(* generate_server_config: server.conf from the persisted settings.        *)
(***************************************************************************)
ServerPushLines(s) ==
    If(s.redirect_gateway,
       IF StrOrEmpty(s.ipv6_network) # "" /\ s.ipv6_prefix # NoneInt
       THEN << <<"push", "redirect-gateway", "def1", "ipv6", "bypass-dhcp">> >>
       ELSE << <<"push", "redirect-gateway", "def1", "bypass-dhcp">> >>)
    \o If(Strip(s.primary_dns) # "", << <<"push", "dhcp-option", "DNS", s.primary_dns>> >>)
    \o If(Strip(s.secondary_dns) # "", << <<"push", "dhcp-option", "DNS", s.secondary_dns>> >>)
    \o If(s.block_outside_dns, << <<"push", "block-outside-dns">> >>)
    \o [i \in 1..Len(RouteLines(s)) |-> <<"push">> \o RouteLines(s)[i]]
    \o [i \in 1..Len(s.advanced_client_push) |->
            IF Head(s.advanced_client_push[i]) = "push" THEN s.advanced_client_push[i]
            ELSE <<"push">> \o s.advanced_client_push[i]]

ServerConfigValid(s, protocol) ==
    /\ protocol \in {"udp", "tcp", "udp6", "tcp6"}
    /\ s.device_type \in {"tun", "tap"}
    /\ s.topology = "subnet"
    /\ s.tls_version_min \in {"1.2", "1.3"}
    /\ s.tls_mode \in {"tls-crypt", "tls-auth", "none"}
    /\ s.auth_digest \in {"SHA256", "SHA384", "SHA512"}

ServerConfigLines(s) ==
    LET mode == NormalizeMode(s.obfuscation_mode)
        protocol == IF mode # "standard" THEN "tcp" ELSE s.protocol
        push_lines == ServerPushLines(s)
        ipv6 == StrOrEmpty(s.ipv6_network) # "" /\ s.ipv6_prefix # NoneInt
    IN << <<"#", "Atlas VPN - OpenVPN Server Configuration">>, <<"#", "Generated:">>, <<>>,
          <<"port", ToString(s.port)>>, <<"proto", protocol>>, <<"dev", s.device_type>>,
          <<"topology", s.topology>>, <<"server", s.ipv4_network, s.ipv4_netmask>> >>
       \o If(ipv6, << <<"server-ipv6", s.ipv6_network, ToString(s.ipv6_prefix)>> >>)
       \o If(s.max_clients # 0, << <<"max-clients", ToString(s.max_clients)>> >>)
       \o If(s.client_to_client, << <<"client-to-client">> >>)
       \o << <<>>, <<"ca", "ca.crt">>, <<"cert", "server.crt">>, <<"key", "server.key">>,
             <<"dh", "dh.pem">> >>
       \o << <<"data-ciphers", FirstNonEmpty(Strip(s.data_ciphers),
                                            "AES-256-GCM:AES-128-GCM:CHACHA20-POLY1305")>>,
             <<"data-ciphers-fallback", "AES-256-GCM">> >>
       \o << <<"auth", s.auth_digest>>, <<"tls-version-min", s.tls_version_min>> >>
       \o (CASE s.tls_mode = "tls-crypt" -> << <<"tls-crypt", "ta.key">> >>
             [] s.tls_mode = "tls-auth" -> << <<"tls-auth", "ta.key", "0">> >>
             [] OTHER -> <<>>)
       \o << <<"reneg-sec", ToString(s.reneg_sec)>> >>
       \o If(s.keepalive_ping # 0 /\ s.keepalive_timeout # 0,
             << <<"keepalive", ToString(s.keepalive_ping), ToString(s.keepalive_timeout)>> >>)
       \o If(s.inactive_timeout > 0, << <<"inactive", ToString(s.inactive_timeout)>> >>)
       \o << <<"persist-key">>, <<"persist-tun">> >>
       \o If(s.sndbuf > 0, << <<"sndbuf", ToString(s.sndbuf)>> >>)
       \o If(s.rcvbuf > 0, << <<"rcvbuf", ToString(s.rcvbuf)>> >>)
       \o If(s.fast_io /\ protocol \in {"udp", "udp6"}, << <<"fast-io">> >>)
       \o If(s.tcp_nodelay /\ protocol \in {"tcp", "tcp6"}, << <<"tcp-nodelay">> >>)
       \o If(s.tun_mtu > 0, << <<"tun-mtu", ToString(s.tun_mtu)>> >>)
       \o If(s.mssfix > 0, << <<"mssfix", ToString(s.mssfix)>> >>)
       \o If(protocol \in {"udp", "udp6"} /\ s.explicit_exit_notify > 0,
             << <<"explicit-exit-notify", ToString(s.explicit_exit_notify)>> >>)
       \o If(s.management_port > 0, << <<"management", "127.0.0.1", ToString(s.management_port)>> >>)
       \o If(push_lines # <<>>, << <<>> >> \o push_lines)
       \o << <<>>, <<"user", "nobody">>, <<"group", "nogroup">> >>
       \o << <<"verb", ToString(s.verbosity)>> >>
       \o If(\E i \in 1..Len(s.custom_directives) : s.custom_directives[i] # <<>>,
             << <<>> >> \o SelectSeq(s.custom_directives, LAMBDA l : l # <<>>))
       \o << <<>> >>

\* The only caller that passes a dictionary (update_openvpn_settings) passes
\* the fields of the row it has just committed, so laying its non-None values
\* over the loaded row gives the loaded row.
GenerateServerConfigResult(row, grow) ==
    LET s == LoadRuntimeSettings(row, grow).openvpn
        mode == NormalizeMode(s.obfuscation_mode)
        protocol == IF mode # "standard" THEN "tcp" ELSE s.protocol
    IN IF s.port = NoneInt \/ ~ServerConfigValid(s, protocol)
       THEN [success |-> FALSE, content |-> NoConfig]
       ELSE [success |-> TRUE, content |-> ServerConfigLines(s)]

(***************************************************************************)
(* The persisted rows.  DefaultSettings is the row database.py creates;    *)
(* resolv_retry_mode, persist_key and persist_tun are not columns and keep *)
(* the defaults of the loader.  general_settings carries server_address    *)
(* (database.py adds the column) and public_ipv4_address.                  *)
(***************************************************************************)
DefaultSettings ==
    [port |-> DefaultPort, protocol |-> "udp", device_type |-> "tun", topology |-> "subnet",
     ipv4_network |-> "10.8.0.0", ipv4_netmask |-> "255.255.255.0",
     ipv6_network |-> NoneStr, ipv6_prefix |-> NoneInt,
     max_clients |-> 100, client_to_client |-> FALSE,
     redirect_gateway |-> TRUE, primary_dns |-> "8.8.8.8", secondary_dns |-> "1.1.1.1",
     block_outside_dns |-> FALSE, push_custom_routes |-> <<>>,
     data_ciphers |-> "AES-256-GCM:AES-128-GCM:CHACHA20-POLY1305",
     tls_version_min |-> "1.2", tls_mode |-> "tls-crypt", auth_digest |-> "SHA256",
     reneg_sec |-> 3600, tun_mtu |-> 1500, mssfix |-> 1450,
     sndbuf |-> 393216, rcvbuf |-> 393216, fast_io |-> FALSE, tcp_nodelay |-> FALSE,
     explicit_exit_notify |-> 1, keepalive_ping |-> 10, keepalive_timeout |-> 120,
     inactive_timeout |-> 300, management_port |-> 5555, verbosity |-> 3,
     enable_auth_nocache |-> TRUE,
     resolv_retry_mode |-> "infinite", persist_key |-> TRUE, persist_tun |-> TRUE,
     custom_directives |-> <<>>, advanced_client_push |-> <<>>,
     custom_ios |-> NoBlob, custom_android |-> NoBlob,
     custom_windows |-> NoBlob, custom_mac |-> NoBlob,
     obfuscation_mode |-> "standard",
     proxy_server |-> NoneStr, proxy_address |-> NoneStr, proxy_port |-> DefaultProxyPort,
     spoofed_host |-> "speedtest.net", socks_server |-> NoneStr, socks_port |-> NoneInt,
     stunnel_port |-> DefaultStunnelPort, sni_domain |-> NoneStr, cdn_domain |-> <<>>,
     ws_path |-> "/stream", ws_port |-> DefaultWsPort]

DefaultGeneral == [server_address |-> NoneStr, public_ipv4_address |-> NoneStr]

\* values of the proxy, SOCKS, tunnel and CDN fields

ProxyFields ==
    [proxy_server : {NoneStr, "proxy.example.com"}, proxy_address : {NoneStr, "10.0.0.5"},
     proxy_port : {DefaultProxyPort, 3128},
     spoofed_host : {NoneStr, "speedtest.net", "compress.example.com"}]
SocksFields == [socks_server : {NoneStr, "socks.example.com"}, socks_port : {NoneInt, 9050}]
TunnelFields == [stunnel_port : {DefaultStunnelPort, 8443},
                 sni_domain : {NoneStr, "sni.example.com"}]
CdnFields ==
    [cdn_domain : {<<>>, <<"cdn.example.com">>,
                   <<"https", "://", "cdn.example.com", ":", "8443", "/", "ws">>},
     ws_path : {"/stream"}, ws_port : {DefaultWsPort}]

ProxyUnset == [proxy_server |-> NoneStr, proxy_address |-> NoneStr,
               proxy_port |-> DefaultProxyPort, spoofed_host |-> "speedtest.net"]
ProxySet == [proxy_server |-> "proxy.example.com", proxy_address |-> "10.0.0.5",
             proxy_port |-> 3128, spoofed_host |-> "speedtest.net"]
SocksUnset == [socks_server |-> NoneStr, socks_port |-> NoneInt]
SocksSet == [socks_server |-> "socks.example.com", socks_port |-> 9050]
TunnelUnset == [stunnel_port |-> DefaultStunnelPort, sni_domain |-> NoneStr]
TunnelSet == [stunnel_port |-> 8443, sni_domain |-> "sni.example.com"]
CdnUnset == [cdn_domain |-> <<>>, ws_path |-> "/stream", ws_port |-> DefaultWsPort]
CdnSet == [cdn_domain |-> <<"cdn.example.com">>, ws_path |-> "/stream", ws_port |-> DefaultWsPort]

\* the fields a mode reads take every value and the other groups stay unset;
\* in standard mode, which reads none, every group is unset or set
ObfuscationFieldsFor(mode) ==
    CASE mode \in {"stealth", "http_proxy_basic", "http_proxy_advanced"} ->
           {<<p, SocksUnset, TunnelUnset, CdnUnset>> : p \in ProxyFields}
      [] mode = "socks5_proxy_injection" ->
           {<<[ProxyUnset EXCEPT !.proxy_server = ps], s, TunnelUnset, CdnUnset>> :
                ps \in {NoneStr, "proxy.example.com"}, s \in SocksFields}
      [] mode = "tls_tunnel" ->
           {<<ProxyUnset, SocksUnset, tn, CdnUnset>> : tn \in TunnelFields}
      [] mode = "websocket_cdn" ->
           {<<ProxyUnset, SocksUnset, TunnelUnset, c>> : c \in CdnFields}
      [] OTHER ->
           {<<p, s, tn, c>> : p \in {ProxyUnset, ProxySet}, s \in {SocksUnset, SocksSet},
                              tn \in {TunnelUnset, TunnelSet}, c \in {CdnUnset, CdnSet}}

WithObfuscation(row, mode, f) ==
    [row EXCEPT !.obfuscation_mode = mode,
                !.proxy_server = f[1].proxy_server, !.proxy_address = f[1].proxy_address,
                !.proxy_port = f[1].proxy_port, !.spoofed_host = f[1].spoofed_host,
                !.socks_server = f[2].socks_server, !.socks_port = f[2].socks_port,
                !.stunnel_port = f[3].stunnel_port, !.sni_domain = f[3].sni_domain,
                !.cdn_domain = f[4].cdn_domain, !.ws_path = f[4].ws_path,
                !.ws_port = f[4].ws_port]

TransportRows ==
    UNION {{WithObfuscation([DefaultSettings EXCEPT !.port = port, !.protocol = protocol,
                                                    !.tls_mode = tls_mode], mode, f) :
                port \in {DefaultPort, ObfuscationPort}, protocol \in Protocols, tls_mode \in TlsModes,
                f \in ObfuscationFieldsFor(mode)} : mode \in Modes}


(***************************************************************************)
(* The host.  is_production is IS_LINUX; tools are the firewall binaries on *)
(* the path; allowed and denied are the firewall rules, a rule being a     *)
(* port and a protocol; squid_conf is the port squid.conf names;           *)
(* server_conf is the transport server.conf names and listening the        *)
(* transport the running service uses; calls counts the calls made.        *)
(***************************************************************************)
\* ObfuscationManager._normalize_proto
NormalizeProto(proto) == IF IsTcp(proto) THEN "tcp" ELSE "udp"

\* OpenVPNManager._normalize_transport_protocol
NormalizeTransportProtocol(protocol) == IF IsTcp(protocol) THEN "tcp" ELSE "udp"

\* f"{port}/{proto}"
Rule(port, proto) == <<ToString(port), proto>>

\* the transport a configuration with these settings makes the server use
TransportOf(row) ==
    Rule(row.port, IF NormalizeMode(row.obfuscation_mode) # "standard" THEN "tcp"
                   ELSE row.protocol)

\* a host installed for the row: its transport is allowed and served
InstalledHost(row, is_production) ==
    [is_production |-> is_production,
     tools |-> {"ufw", "iptables"}, squid_installed |-> TRUE,
     squid_writable |-> TRUE, conf_writable |-> TRUE,
     allowed |-> {Rule(row.port, NormalizeTransportProtocol(row.protocol))},
     denied |-> {},
     squid_conf |-> NoneInt,
     server_conf |-> TransportOf(row),
     listening |-> TransportOf(row),
     calls |-> 0]

(***************************************************************************)
(* Synthesis from arbitrary persisted settings.                            *)
(***************************************************************************)
Platforms == {"ios", "mac", "macos", "android", "windows", "default"}
ApplePlatforms == {"ios", "mac", "macos"}
AddressArguments == {NoneStr, "edge.example.com"}
ClientName == "alice"

Idle == [op |-> "none", os |-> "", server_address |-> NoneStr, result |-> <<>>]

Init ==
    /\ db \in TransportRows
    /\ general = DefaultGeneral
    /\ machine = InstalledHost(DefaultSettings, TRUE)
    /\ out = Idle

\* the transport decision, with the arguments generate_client_config derives
Decide(server_address) ==
    LET loaded == LoadRuntimeSettings(db, general)
        s == loaded.openvpn
        mode == NormalizeMode(s.obfuscation_mode)
        effective_protocol == EffectiveProtocol(mode, ResolvedProtocol(NoneStr, s))
    IN /\ out' = [op |-> "decide", os |-> "", server_address |-> server_address,
                  result |-> BuildClientTransportDirectives(
                                 ResolvedServer(server_address, loaded.general),
                                 ResolvedPort(NoneInt, s), effective_protocol,
                                 ObfuscationSettings(s))]
       /\ UNCHANGED <<db, general, machine>>

GenerateServerConfig ==
    /\ out' = [op |-> "server", os |-> "", server_address |-> NoneStr,
               result |-> GenerateServerConfigResult(db, general)]
    /\ UNCHANGED <<db, general, machine>>

GenerateClientConfig(rev, server_address, os_type) ==
    /\ out' = [op |-> "client", os |-> os_type, server_address |-> server_address,
               result |-> GenerateClientConfigText(rev, db, general, ClientName,
                                                   server_address, NoneInt, NoneStr, os_type)]
    /\ UNCHANGED <<db, general, machine>>

Next ==
    \/ \E a \in AddressArguments : Decide(a)
    \/ GenerateServerConfig
    \/ \E rev \in Revisions, a \in AddressArguments, os \in Platforms :
           GenerateClientConfig(rev, a, os)

Spec == Init /\ [][Next]_vars

(***************************************************************************)
(* The generators applied to a settings dictionary that carries custom     *)
(* blobs.  A blob is a text of at most MaxBlobLines lines.                 *)
(***************************************************************************)
MaxBlobLines == 2

BlobLines ==
    { <<"compress", "lz4">>, <<"COMPRESS">>, <<"comp-lzo">>,
      <<"setenv", "opt", "compress", "lz4">>,
      <<"sndbuf", "0">>, <<"rcvbuf", "0">>, <<"block-outside-dns">>,
      <<"setenv", "opt", "block-outside-dns">>,
      <<"explicit-exit-notify", "1">>, <<"#", "rcvbuf", "0">>, <<"mute", "20">> }

Blobs == UNION {[1..n -> BlobLines] : n \in 0..MaxBlobLines}

BenignBlob == << <<"mute", "20">> >>

\* the blob under test sits in the iOS and Android fields or in the macOS and
\* Windows fields
BlobRows ==
    {[DefaultSettings EXCEPT !.obfuscation_mode = mode, !.protocol = protocol,
                             !.custom_ios = IF first THEN blob ELSE BenignBlob,
                             !.custom_android = IF first THEN blob ELSE BenignBlob,
                             !.custom_mac = IF first THEN BenignBlob ELSE blob,
                             !.custom_windows = IF first THEN BenignBlob ELSE blob] :
        mode \in {"standard", "stealth"}, protocol \in {"udp", "tcp"},
        blob \in Blobs, first \in BOOLEAN}

InitFilter ==
    /\ db \in BlobRows
    /\ general = DefaultGeneral
    /\ machine = InstalledHost(DefaultSettings, TRUE)
    /\ out = Idle

\* _generate_apple_config called with the settings of the row
CallGenerateAppleConfig(rev, os_type) ==
    /\ out' = [op |-> "client", os |-> os_type, server_address |-> NoneStr,
               result |-> GenerateAppleConfig(rev, ClientName, db,
                              LoadRuntimeSettings(db, general).general,
                              NoneStr, NoneInt, NoneStr, os_type)]
    /\ UNCHANGED <<db, general, machine>>

\* _generate_android_config called with the settings of the row
CallGenerateAndroidConfig ==
    /\ out' = [op |-> "client", os |-> "android", server_address |-> NoneStr,
               result |-> GenerateAndroidConfig(ClientName, db,
                              LoadRuntimeSettings(db, general).general,
                              NoneStr, NoneInt, NoneStr)]
    /\ UNCHANGED <<db, general, machine>>

NextFilter ==
    \/ \E rev \in Revisions, os \in ApplePlatforms : CallGenerateAppleConfig(rev, os)
    \/ CallGenerateAndroidConfig
    \/ \E rev \in Revisions, os \in Platforms : GenerateClientConfig(rev, NoneStr, os)

SpecFilter == InitFilter /\ [][NextFilter]_vars

(***************************************************************************)
(* validate_openvpn_readiness: the names of the required fields that are   *)
(* missing.  The mode column is NOT NULL and holds a mode name.            *)
(***************************************************************************)
\* not x or not x.strip()
Blank(x) == x = NoneStr \/ Strip(x) = ""

\* not n, for a number
Falsy(n) == n = NoneInt \/ n = 0

\* a variant without the proxy address requirement
ValidateOpenvpnReadinessNoAddress(general_settings, openvpn_settings) ==
    If(Blank(general_settings.server_address), <<"Server IP/Domain">>)
    \o If(Falsy(openvpn_settings.port), <<"Port">>)
    \o If(Blank(openvpn_settings.protocol), <<"Protocol">>)
    \o If(openvpn_settings.obfuscation_mode \notin {NoneStr, "", "standard"}
          /\ Falsy(openvpn_settings.proxy_port),
          <<"Proxy Port (Required for HTTP Proxy)">>)

ValidateOpenvpnReadiness(general_settings, openvpn_settings) ==
    If(Blank(general_settings.server_address), <<"Server IP/Domain">>)
    \o If(Falsy(openvpn_settings.port), <<"Port">>)
    \o If(Blank(openvpn_settings.protocol), <<"Protocol">>)
    \o If(openvpn_settings.obfuscation_mode \notin {NoneStr, "", "standard"},
          If(Falsy(openvpn_settings.proxy_port), <<"Proxy Port (Required for HTTP Proxy)">>)
          \o If(openvpn_settings.obfuscation_mode \in {"http_proxy_basic", "http_proxy_advanced"}
                /\ Blank(openvpn_settings.proxy_address),
                <<"Proxy Address (Required for HTTP Proxy)">>))

ReadinessRows ==
    {[DefaultSettings EXCEPT !.port = port, !.protocol = protocol,
                             !.obfuscation_mode = mode, !.proxy_port = proxy_port,
                             !.proxy_address = proxy_address] :
        port \in {NoneInt, 0, DefaultPort}, protocol \in {NoneStr, "", " ", "udp"},
        mode \in Modes, proxy_port \in {NoneInt, 0, DefaultProxyPort},
        proxy_address \in {NoneStr, "", " ", "10.0.0.5"}}

ReadinessGeneralRows ==
    {[DefaultGeneral EXCEPT !.server_address = a] : a \in {NoneStr, "", " ", "vpn.example.com"}}

InitReadiness ==
    /\ db \in ReadinessRows
    /\ general \in ReadinessGeneralRows
    /\ machine = InstalledHost(DefaultSettings, TRUE)
    /\ out = Idle

CheckReadiness ==
    /\ out' = [op |-> "readiness", os |-> "", server_address |-> NoneStr,
               result |-> ValidateOpenvpnReadiness(general, db)]
    /\ UNCHANGED <<db, general, machine>>

NextReadiness == CheckReadiness

SpecReadiness == InitReadiness /\ [][NextReadiness]_vars

(***************************************************************************)
(* Command execution.  A command is a sequence of words.  What the host    *)
(* does with the k-th process a call spawns is the k-th entry of an        *)
(* oracle: the process exits with status 0 ("ok"), exits with another      *)
(* status ("nonzero"), cannot be started because the binary is missing     *)
(* ("missing"), or cannot be started for another reason ("oserror").       *)
(***************************************************************************)
Outcomes == {"ok", "nonzero", "missing", "oserror"}

MaxOracle == 3

\* an oracle names the outcomes up to the last process that does not exit
\* with 0; every later process exits with 0
Oracles ==
    {o \in UNION {[1..n -> Outcomes] : n \in 0..MaxOracle} : o = <<>> \/ o[Len(o)] # "ok"}

\* the outcome of the next process, given the processes spawned so far
OutcomeAt(oracle, issued) ==
    IF Len(issued) + 1 <= Len(oracle) THEN oracle[Len(issued) + 1] ELSE "ok"

Spawned(cmd, outcome) == [cmd |-> cmd, outcome |-> outcome]

\* OpenVPNManager._run_command: subprocess.run raises CalledProcessError only
\* when check is set, FileNotFoundError is re-raised in production, any other
\* exception is re-raised when check is set and answered with False otherwise
RunCommand(is_production, check, outcome) ==
    IF ~is_production THEN [success |-> TRUE, raised |-> FALSE, spawned |-> FALSE]
    ELSE CASE outcome = "ok" -> [success |-> TRUE, raised |-> FALSE, spawned |-> TRUE]
           [] outcome = "nonzero" -> [success |-> ~check, raised |-> check, spawned |-> TRUE]
           [] outcome = "missing" -> [success |-> FALSE, raised |-> TRUE, spawned |-> TRUE]
           [] OTHER -> [success |-> FALSE, raised |-> check, spawned |-> TRUE]

\* ObfuscationManager._run_command: every exception is answered with
\* success False; CalledProcessError arises only when check is set
ObfuscationRunCommand(is_production, check, outcome) ==
    IF ~is_production THEN [success |-> TRUE, raised |-> FALSE, spawned |-> FALSE]
    ELSE CASE outcome = "ok" -> [success |-> TRUE, raised |-> FALSE, spawned |-> TRUE]
           [] outcome = "nonzero" -> [success |-> ~check, raised |-> FALSE, spawned |-> TRUE]
           [] OTHER -> [success |-> FALSE, raised |-> FALSE, spawned |-> TRUE]

\* the result of an orchestration call: the dictionary it returns, and the
\* processes it spawned with what became of them
Returned(success, message, is_mock, commands, issued) ==
    [success |-> success, raised |-> FALSE, message |-> message, is_mock |-> is_mock,
     commands |-> commands, issued |-> issued]

\* an exception left the call: there is no dictionary
Raised(issued) ==
    [success |-> FALSE, raised |-> TRUE, message |-> "", is_mock |-> FALSE,
     commands |-> <<>>, issued |-> issued]

UfwAllow(port, proto) == <<"ufw", "allow">> \o Rule(port, proto)
UfwDeleteAllow(port, proto) == <<"ufw", "delete", "allow">> \o Rule(port, proto)
UfwDeny(port, proto) == <<"ufw", "deny">> \o Rule(port, proto)

(***************************************************************************)
(* OpenVPNManager.sync_firewall_for_transport_change                       *)
(***************************************************************************)
SyncFirewallForTransportChange(old_port, old_protocol, new_port, new_protocol, is_production, oracle) ==
    LET old_proto == NormalizeTransportProtocol(old_protocol)
        new_proto == NormalizeTransportProtocol(new_protocol)
        allow_rule == UfwAllow(new_port, new_proto)
        delete_cmd == UfwDeleteAllow(old_port, old_proto)
        deny_cmd == UfwDeny(old_port, old_proto)
        o1 == OutcomeAt(oracle, <<>>)
        r1 == RunCommand(TRUE, FALSE, o1)
        i1 == <<Spawned(allow_rule, o1)>>
        o2 == OutcomeAt(oracle, i1)
        r2 == RunCommand(TRUE, FALSE, o2)
        i2 == Append(i1, Spawned(delete_cmd, o2))
        o3 == OutcomeAt(oracle, i2)
        r3 == RunCommand(TRUE, FALSE, o3)
        i3 == Append(i2, Spawned(deny_cmd, o3))
    IN IF old_port = new_port /\ old_proto = new_proto
       THEN Returned(TRUE, "Firewall rules unchanged", ~is_production, <<>>, <<>>)
       ELSE IF ~is_production
       THEN Returned(TRUE, "Firewall rules updated (mock)", TRUE,
                     <<allow_rule, delete_cmd>>, <<>>)
       ELSE IF r1.raised THEN Raised(i1)
       ELSE IF ~r1.success
       THEN Returned(FALSE, "Failed to allow new firewall rule", FALSE, <<allow_rule>>, i1)
       ELSE IF r2.raised THEN Raised(i2)
       ELSE IF r2.success
       THEN Returned(TRUE, "Firewall rules updated", FALSE, <<allow_rule, delete_cmd>>, i2)
       ELSE IF r3.raised THEN Raised(i3)
       ELSE IF ~r3.success
       THEN Returned(FALSE, "Failed to remove old firewall rule", FALSE,
                     <<allow_rule, delete_cmd, deny_cmd>>, i3)
       ELSE Returned(TRUE, "Firewall rules updated", FALSE,
                     <<allow_rule, delete_cmd, deny_cmd>>, i3)

(***************************************************************************)
(* OpenVPNManager.sync_https_firewall_ports                                *)
(***************************************************************************)
\* sorted(S) for a set of numbers
RECURSIVE Sorted(_)
Sorted(S) ==
    IF S = {} THEN <<>>
    ELSE LET least == CHOOSE x \in S : \A y \in S : x <= y
         IN <<least>> \o Sorted(S \ {least})

\* {int(port) for port in [a, b] if port is not None}
PortSet(a, b) == {a, b} \ {NoneInt}

\* the loop over the commands in production: k is the next command
RECURSIVE HttpsLoop(_, _, _, _, _)
HttpsLoop(commands, k, executed_commands, issued, oracle) ==
    IF k > Len(commands)
    THEN Returned(TRUE, "HTTPS firewall rules updated", FALSE, executed_commands, issued)
    ELSE LET cmd == commands[k]
             o == OutcomeAt(oracle, issued)
             r == RunCommand(TRUE, FALSE, o)
             i1 == Append(issued, Spawned(cmd, o))
             e1 == Append(executed_commands, cmd)
             deny_cmd == <<"ufw", "deny">> \o SubSeq(cmd, 4, Len(cmd))
             o2 == OutcomeAt(oracle, i1)
             r2 == RunCommand(TRUE, FALSE, o2)
             i2 == Append(i1, Spawned(deny_cmd, o2))
             e2 == Append(e1, deny_cmd)
         IN IF r.raised THEN Raised(i1)
            ELSE IF r.success THEN HttpsLoop(commands, k + 1, e1, i1, oracle)
            ELSE IF SubSeq(cmd, 1, 3) # <<"ufw", "delete", "allow">>
            THEN Returned(FALSE, "Failed to update HTTPS firewall rules", FALSE, e1, i1)
            ELSE IF r2.raised THEN Raised(i2)
            ELSE IF r2.success THEN HttpsLoop(commands, k + 1, e2, i2, oracle)
            ELSE Returned(FALSE, "Failed to update HTTPS firewall rules", FALSE, e2, i2)

SyncHttpsFirewallPorts(old_panel_port, new_panel_port, old_subscription_port, new_subscription_port, is_production, oracle) ==
    LET old_ports == PortSet(old_panel_port, old_subscription_port)
        new_ports == PortSet(new_panel_port, new_subscription_port)
        allow_ports == Sorted(new_ports \ old_ports)
        remove_ports == Sorted(old_ports \ new_ports)
        commands == [i \in 1..Len(allow_ports) |-> UfwAllow(allow_ports[i], "tcp")]
                    \o [i \in 1..Len(remove_ports) |-> UfwDeleteAllow(remove_ports[i], "tcp")]
    IN IF allow_ports = <<>> /\ remove_ports = <<>>
       THEN Returned(TRUE, "HTTPS firewall rules unchanged", ~is_production, <<>>, <<>>)
       ELSE IF ~is_production
       THEN Returned(TRUE, "HTTPS firewall rules updated (mock)", TRUE, commands, <<>>)
       ELSE HttpsLoop(commands, 1, <<>>, <<>>, oracle)

(***************************************************************************)
(* OpenVPNManager.sync_system_general_settings                             *)
(***************************************************************************)
\* the loop over the system commands in production; the processes of the
\* port synchronisation come first in issued
RECURSIVE GeneralLoop(_, _, _, _, _, _)
GeneralLoop(commands, k, executed_commands, issued, oracle, port_commands) ==
    IF k > Len(commands)
    THEN Returned(TRUE, "General system settings updated", FALSE,
                  port_commands \o executed_commands, issued)
    ELSE LET cmd == commands[k]
             o == OutcomeAt(oracle, issued)
             r == RunCommand(TRUE, FALSE, o)
             i1 == Append(issued, Spawned(cmd, o))
             e1 == Append(executed_commands, cmd)
         IN IF r.raised THEN Raised(i1)
            ELSE IF ~r.success
            THEN Returned(FALSE, "Failed to apply general system command", FALSE, e1, i1)
            ELSE GeneralLoop(commands, k + 1, e1, i1, oracle, port_commands)

SyncSystemGeneralSettings(old_global_ipv6_support, new_global_ipv6_support, old_timezone, new_timezone, old_panel_https_port, new_panel_https_port, old_subscription_https_port, new_subscription_https_port, is_production, oracle) ==
    LET disable_value == IF new_global_ipv6_support THEN "0" ELSE "1"
        normalized_old_timezone == StrOrEmpty(old_timezone)
        normalized_new_timezone == StrOrEmpty(new_timezone)
        commands ==
            If(old_global_ipv6_support # new_global_ipv6_support,
               << <<"sysctl", "-w", "net.ipv6.conf.all.disable_ipv6", disable_value>>,
                  <<"sysctl", "-w", "net.ipv6.conf.default.disable_ipv6", disable_value>> >>)
            \o If(normalized_new_timezone # ""
                  /\ normalized_new_timezone # normalized_old_timezone,
                  << <<"timedatectl", "set-timezone", normalized_new_timezone>> >>)
        port_sync_result ==
            SyncHttpsFirewallPorts(old_panel_https_port, new_panel_https_port,
                                   old_subscription_https_port, new_subscription_https_port,
                                   is_production, oracle)
    IN IF port_sync_result.raised \/ ~port_sync_result.success THEN port_sync_result
       ELSE IF commands = <<>>
       THEN Returned(TRUE, "General system settings unchanged", ~is_production,
                     port_sync_result.commands, port_sync_result.issued)
       ELSE IF ~is_production
       THEN Returned(TRUE, "General system settings updated (mock)", TRUE,
                     port_sync_result.commands \o commands, port_sync_result.issued)
       ELSE GeneralLoop(commands, 1, <<>>, port_sync_result.issued, oracle,
                        port_sync_result.commands)

(***************************************************************************)
(* ObfuscationManager: the helpers of apply_mode_automation.  A helper     *)
(* takes the log of the call (executed_commands, the processes spawned,    *)
(* the squid port written) and answers with its success and the new log.   *)
(***************************************************************************)
EmptyLog == [executed_commands |-> <<>>, issued |-> <<>>, written |-> NoneInt]

Step(success, message, log) == [success |-> success, message |-> message, log |-> log]

\* result = step(...); if not result.get("success"): return result; then go on
\* with the log the step left
AndThen(step, Continue(_)) ==
    CHOOSE r \in {IF s.success THEN Continue(s.log) ELSE s : s \in {step}} : TRUE

\* nothing to do at this point of the call
Skip(log) == Step(TRUE, "", log)

\* result = self._run_command(cmd, check=False); executed_commands.append(" ".join(cmd))
ObfuscationExec(m, oracle, log, cmd) ==
    LET o == OutcomeAt(oracle, log.issued)
        r == ObfuscationRunCommand(m.is_production, FALSE, o)
    IN [success |-> r.success, outcome |-> o,
        log |-> [log EXCEPT !.executed_commands = Append(@, cmd),
                            !.issued = IF r.spawned THEN Append(@, Spawned(cmd, o)) ELSE @]]

\* ObfuscationManager._command_exists
CommandExists(m, command) == ~m.is_production \/ command \in m.tools

\* ObfuscationManager._ensure_squid_installed: dpkg-query prints "install ok
\* installed" when it exits with 0 and the package is installed
EnsureSquidInstalled(m, oracle, log) ==
    LET AfterCheck(check_result) ==
            LET is_installed == check_result.success /\ check_result.outcome = "ok"
                                /\ m.squid_installed
                install_result == ObfuscationExec(m, oracle, check_result.log,
                                                  <<"apt-get", "install", "-y", "squid">>)
            IN IF is_installed THEN Step(TRUE, "Squid already installed", check_result.log)
               ELSE IF ~install_result.success
               THEN Step(FALSE, "Failed to install squid", install_result.log)
               ELSE Step(TRUE, "Squid installed", install_result.log)
    IN IF ~m.is_production THEN Step(TRUE, "Squid check skipped in mock mode", log)
       ELSE CHOOSE r \in {AfterCheck(c) : c \in {ObfuscationExec(m, oracle, log,
                               <<"dpkg-query", "-W", "-f=${Status}", "squid">>)}} : TRUE

\* ObfuscationManager._write_squid_config
WriteSquidConfig(m, proxy_port, log) ==
    LET logged == [log EXCEPT !.executed_commands = Append(@, <<"write", "/etc/squid/squid.conf">>)]
    IN IF ~m.is_production THEN Step(TRUE, "Squid config written (mock)", logged)
       ELSE IF m.squid_writable
       THEN Step(TRUE, "Squid config written", [logged EXCEPT !.written = proxy_port])
       ELSE Step(FALSE, "Failed to write squid config", log)

\* ObfuscationManager._sync_service
SyncService(m, oracle, log, service_name, action) ==
    LET result == ObfuscationExec(m, oracle, log, <<"systemctl", action, service_name>>)
    IN IF ~result.success THEN Step(FALSE, "Failed to run systemctl", result.log)
       ELSE Step(TRUE, "Service action completed", result.log)

\* ObfuscationManager._allow_port
AllowPort(m, oracle, log, port, proto) ==
    LET normalized_proto == NormalizeProto(proto)
        result == ObfuscationExec(m, oracle, log, UfwAllow(port, normalized_proto))
        check_result == ObfuscationExec(m, oracle, log,
                            <<"iptables", "-C", "INPUT", "-p", normalized_proto, "--dport",
                              ToString(port), "-j", "ACCEPT">>)
        add_result == ObfuscationExec(m, oracle, check_result.log,
                          <<"iptables", "-A", "INPUT", "-p", normalized_proto, "--dport",
                            ToString(port), "-j", "ACCEPT">>)
    IN IF CommandExists(m, "ufw")
       THEN IF ~result.success THEN Step(FALSE, "Failed to allow firewall rule", result.log)
            ELSE Step(TRUE, "Firewall allow applied", result.log)
       ELSE IF CommandExists(m, "iptables")
       THEN IF check_result.success
            THEN Step(TRUE, "Firewall allow already present", check_result.log)
            ELSE IF ~add_result.success
            THEN Step(FALSE, "Failed to add iptables allow rule", add_result.log)
            ELSE Step(TRUE, "iptables allow applied", add_result.log)
       ELSE Step(FALSE, "Neither ufw nor iptables is available to manage firewall", log)

\* ObfuscationManager._deny_port
DenyPort(m, oracle, log, port, proto) ==
    LET normalized_proto == NormalizeProto(proto)
        result == ObfuscationExec(m, oracle, log, UfwDeny(port, normalized_proto))
        delete_result == ObfuscationExec(m, oracle, log,
                             <<"iptables", "-D", "INPUT", "-p", normalized_proto, "--dport",
                               ToString(port), "-j", "ACCEPT">>)
    IN IF CommandExists(m, "ufw")
       THEN IF ~result.success THEN Step(FALSE, "Failed to deny firewall rule", result.log)
            ELSE Step(TRUE, "Firewall deny applied", result.log)
       ELSE IF CommandExists(m, "iptables")
       THEN IF ~delete_result.success
            THEN Step(TRUE, "iptables allow rule not present", delete_result.log)
            ELSE Step(TRUE, "iptables allow removed", delete_result.log)
       ELSE Step(FALSE, "Neither ufw nor iptables is available to manage firewall", log)

\* a set-up that restarts the daemon before it is enabled
SetupHttpProxyModeRestartFirst(m, oracle, log, proxy_port) ==
    AndThen(EnsureSquidInstalled(m, oracle, log), LAMBDA l1 :
    AndThen(WriteSquidConfig(m, proxy_port, l1), LAMBDA l2 :
    AndThen(SyncService(m, oracle, l2, "squid", "restart"), LAMBDA l3 :
    AndThen(SyncService(m, oracle, l3, "squid", "enable"), LAMBDA l4 :
    Step(TRUE, "HTTP proxy mode automation completed", l4)))))

\* ObfuscationManager._setup_http_proxy_mode
SetupHttpProxyMode(m, oracle, log, proxy_port) ==
    AndThen(EnsureSquidInstalled(m, oracle, log), LAMBDA l1 :
    AndThen(WriteSquidConfig(m, proxy_port, l1), LAMBDA l2 :
    AndThen(SyncService(m, oracle, l2, "squid", "enable"), LAMBDA l3 :
    AndThen(SyncService(m, oracle, l3, "squid", "restart"), LAMBDA l4 :
    Step(TRUE, "HTTP proxy mode automation completed", l4)))))

\* a teardown that disables the daemon before it is stopped
TeardownHttpProxyModeDisableFirst(m, oracle, log) ==
    AndThen(SyncService(m, oracle, log, "squid", "disable"), LAMBDA l1 :
    AndThen(SyncService(m, oracle, l1, "squid", "stop"), LAMBDA l2 :
    Step(TRUE, "HTTP proxy service stopped", l2)))

\* ObfuscationManager._teardown_http_proxy_mode
TeardownHttpProxyMode(m, oracle, log) ==
    AndThen(SyncService(m, oracle, log, "squid", "stop"), LAMBDA l1 :
    AndThen(SyncService(m, oracle, l1, "squid", "disable"), LAMBDA l2 :
    Step(TRUE, "HTTP proxy service stopped", l2)))

(***************************************************************************)
(* ObfuscationManager.apply_mode_automation.  The result carries, next to  *)
(* the returned dictionary, the settings object as the call leaves it.     *)
(* enforced_values is modelled by its keys; a failure result has no such   *)
(* key and shows the empty set.                                            *)
(***************************************************************************)
\* apply_mode_automation: the values it writes into the settings object
EnforceModeOverrides(settings) ==
    LET mode == NormalizeMode(settings.obfuscation_mode)
        override == mode # "standard"
        http == mode \in {"http_proxy_basic", "http_proxy_advanced"}
        proxy_server == FirstNonEmpty(StrOrEmpty(settings.proxy_server),
                                      StrOrEmpty(settings.proxy_address))
    IN [settings EXCEPT
          !.port = IF override THEN ObfuscationPort ELSE settings.port,
          !.protocol = IF override /\ NormalizeProto(settings.protocol) # "tcp"
                       THEN "tcp" ELSE settings.protocol,
          !.tls_mode = IF override THEN "tls-crypt" ELSE settings.tls_mode,
          !.proxy_port = IF http THEN IntOr(settings.proxy_port, DefaultProxyPort)
                         ELSE settings.proxy_port,
          !.proxy_server = IF http THEN (IF proxy_server = "" THEN NoneStr ELSE proxy_server)
                           ELSE settings.proxy_server,
          !.proxy_address = IF http THEN (IF proxy_server = "" THEN NoneStr ELSE proxy_server)
                            ELSE settings.proxy_address]

\* the keys apply_mode_automation records in enforced_values
EnforcedValues(settings) ==
    IF NormalizeMode(settings.obfuscation_mode) = "standard" THEN {}
    ELSE (IF settings.port # ObfuscationPort THEN {"port"} ELSE {})
         \cup (IF NormalizeProto(settings.protocol) # "tcp" THEN {"protocol"} ELSE {})
         \cup (IF settings.tls_mode # "tls-crypt" THEN {"tls_mode"} ELSE {})

AutomationResult(success, message, log, enforced_values, settings, m) ==
    [success |-> success, raised |-> FALSE, message |-> message,
     is_mock |-> ~m.is_production, commands |-> log.executed_commands,
     issued |-> log.issued, written |-> log.written,
     enforced_values |-> enforced_values, settings |-> settings]

ApplyModeAutomation(previous_mode, previous_proxy_port, settings, m, oracle) ==
    LET mode == NormalizeMode(settings.obfuscation_mode)
        old_mode == NormalizeMode(previous_mode)
        http == mode \in {"http_proxy_basic", "http_proxy_advanced"}
        old_http == old_mode \in {"http_proxy_basic", "http_proxy_advanced"}
        enforced_values == EnforcedValues(settings)
        after == EnforceModeOverrides(settings)
        proxy_port == after.proxy_port
        \* if self._requires_http_proxy(mode): ...
        proxy_branch ==
            AndThen(SetupHttpProxyMode(m, oracle, EmptyLog, proxy_port), LAMBDA l1 :
            AndThen(AllowPort(m, oracle, l1, proxy_port, "tcp"), LAMBDA l2 :
            IF old_http /\ Truthy(previous_proxy_port) /\ previous_proxy_port # proxy_port
            THEN DenyPort(m, oracle, l2, previous_proxy_port, "tcp")
            ELSE Skip(l2)))
        \* else: ...
        other_branch ==
            AndThen(IF old_http /\ Truthy(previous_proxy_port)
                    THEN DenyPort(m, oracle, EmptyLog, previous_proxy_port, "tcp")
                    ELSE Skip(EmptyLog), LAMBDA l1 :
            AndThen(IF old_http THEN TeardownHttpProxyMode(m, oracle, l1) ELSE Skip(l1),
                    LAMBDA l2 :
            IF mode = "standard" /\ Truthy(settings.proxy_port)
            THEN DenyPort(m, oracle, l2, settings.proxy_port, "tcp")
            ELSE Skip(l2)))
        \* if self._requires_transport_override(mode): allow 443/tcp
        last == AndThen(IF http THEN proxy_branch ELSE other_branch, LAMBDA l :
                IF mode # "standard" THEN AllowPort(m, oracle, l, ObfuscationPort, "tcp")
                ELSE Skip(l))
    IN CHOOSE r \in
           {IF s.success
            THEN AutomationResult(TRUE, "Obfuscation OS-level automation applied successfully",
                                  s.log, enforced_values, after, m)
            ELSE AutomationResult(FALSE, s.message, s.log, {}, after, m) : s \in {last}} : TRUE

(***************************************************************************)
(* What the spawned processes do to the host: a process that exits with 0  *)
(* has changed the rule it names, any other has changed nothing.           *)
(***************************************************************************)
RuleOf(cmd) ==
    IF cmd[1] = "ufw" THEN SubSeq(cmd, Len(cmd) - 1, Len(cmd))
    ELSE <<cmd[7], cmd[5]>>

RECURSIVE FirewallAfter(_, _)
FirewallAfter(m, issued) ==
    IF issued = <<>> THEN m
    ELSE LET cmd == Head(issued).cmd
             done == Head(issued).outcome = "ok"
             allow == \/ cmd[1] = "ufw" /\ cmd[2] = "allow"
                      \/ cmd[1] = "iptables" /\ cmd[2] = "-A"
             remove == \/ cmd[1] = "ufw" /\ cmd[2] = "delete"
                       \/ cmd[1] = "iptables" /\ cmd[2] = "-D"
             deny == cmd[1] = "ufw" /\ cmd[2] = "deny"
             next == IF done /\ allow
                     THEN [m EXCEPT !.allowed = @ \cup {RuleOf(cmd)}, !.denied = @ \ {RuleOf(cmd)}]
                     ELSE IF done /\ remove
                     THEN [m EXCEPT !.allowed = @ \ {RuleOf(cmd)}]
                     ELSE IF done /\ deny
                     THEN [m EXCEPT !.denied = @ \cup {RuleOf(cmd)}, !.allowed = @ \ {RuleOf(cmd)}]
                     ELSE m
         IN FirewallAfter(next, Tail(issued))

\* the host after a call that spawned these processes
HostAfter(m, issued) == [FirewallAfter(m, issued) EXCEPT !.calls = @ + 1]

(***************************************************************************)
(* The orchestration entry points called on a host, one call per behaviour *)
(* prefix of MaxCalls calls.                                               *)
(***************************************************************************)
MaxCalls == 1

Called(op, args, result) == [op |-> op, args |-> args, result |-> result]

\* the development hosts with and without the firewall tools, the fully
\* equipped production host, and the production hosts that lack one thing
AutomationHosts ==
    LET production == InstalledHost(DefaultSettings, TRUE)
        development == InstalledHost(DefaultSettings, FALSE)
    IN {development, [development EXCEPT !.tools = {}], production,
        [production EXCEPT !.tools = {"iptables"}], [production EXCEPT !.tools = {}],
        [production EXCEPT !.squid_installed = FALSE],
        [production EXCEPT !.squid_writable = FALSE]}

InitAutomation ==
    /\ db = DefaultSettings
    /\ general = DefaultGeneral
    /\ machine \in AutomationHosts
    /\ out = Idle

\* _run_command of either manager on one command
CallRunCommand(manager, check, outcome) ==
    /\ machine.calls < MaxCalls
    /\ out' = Called("run_command", [manager |-> manager, check |-> check, outcome |-> outcome],
                     IF manager = "OpenVPNManager"
                     THEN RunCommand(machine.is_production, check, outcome)
                     ELSE ObfuscationRunCommand(machine.is_production, check, outcome))
    /\ machine' = [machine EXCEPT !.calls = @ + 1]
    /\ UNCHANGED <<db, general>>

CallSyncFirewallForTransportChange(old_port, old_protocol, new_port, new_protocol, oracle) ==
    LET result == SyncFirewallForTransportChange(old_port, old_protocol, new_port, new_protocol,
                                                 machine.is_production, oracle)
    IN /\ machine.calls < MaxCalls
       /\ out' = Called("sync_firewall_for_transport_change",
                        [old |-> Rule(old_port, NormalizeTransportProtocol(old_protocol)),
                         new |-> Rule(new_port, NormalizeTransportProtocol(new_protocol))],
                        result)
       /\ machine' = HostAfter(machine, result.issued)
       /\ UNCHANGED <<db, general>>

CallSyncHttpsFirewallPorts(old_panel_port, new_panel_port, old_subscription_port, new_subscription_port, oracle) ==
    LET result == SyncHttpsFirewallPorts(old_panel_port, new_panel_port, old_subscription_port,
                                         new_subscription_port, machine.is_production, oracle)
    IN /\ machine.calls < MaxCalls
       /\ out' = Called("sync_https_firewall_ports",
                        [old |-> PortSet(old_panel_port, old_subscription_port),
                         new |-> PortSet(new_panel_port, new_subscription_port)],
                        result)
       /\ machine' = HostAfter(machine, result.issued)
       /\ UNCHANGED <<db, general>>

CallSyncSystemGeneralSettings(old_ipv6, new_ipv6, old_timezone, new_timezone, new_panel_port, new_subscription_port, oracle) ==
    LET result == SyncSystemGeneralSettings(old_ipv6, new_ipv6, old_timezone, new_timezone,
                                            2053, new_panel_port, 2083, new_subscription_port,
                                            machine.is_production, oracle)
    IN /\ machine.calls < MaxCalls
       /\ out' = Called("sync_system_general_settings",
                        [old |-> {2053, 2083},
                         new |-> PortSet(new_panel_port, new_subscription_port)],
                        result)
       /\ machine' = HostAfter(machine, result.issued)
       /\ UNCHANGED <<db, general>>

\* the modes the request schema accepts
ApiModes == {"standard", "stealth", "http_proxy_basic", "http_proxy_advanced",
             "socks5_proxy_injection"}

\* the settings object handed to apply_mode_automation
AutomationRows ==
    {[DefaultSettings EXCEPT !.obfuscation_mode = mode, !.port = port, !.protocol = protocol,
                             !.tls_mode = tls_mode] :
        mode \in {"standard", "stealth", "http_proxy_basic"},
        port \in {DefaultPort, ObfuscationPort}, protocol \in Protocols,
        tls_mode \in TlsModes}

CallApplyModeAutomation(previous_mode, previous_proxy_port, settings, oracle) ==
    LET result == ApplyModeAutomation(previous_mode, previous_proxy_port, settings,
                                      machine, oracle)
    IN /\ machine.calls < MaxCalls
       /\ out' = Called("apply_mode_automation",
                        [previous_mode |-> previous_mode,
                         previous_proxy_port |-> previous_proxy_port, settings |-> settings],
                        result)
       /\ machine' = [HostAfter(machine, result.issued) EXCEPT
                          !.squid_conf = IF result.written # NoneInt THEN result.written ELSE @]
       /\ UNCHANGED <<db, general>>

HttpsPorts == {NoneInt, 2053, 2083, 2087}

NextAutomation ==
    \/ machine.calls < MaxCalls /\ \E manager \in {"OpenVPNManager", "ObfuscationManager"},
          check \in BOOLEAN, outcome \in Outcomes : CallRunCommand(manager, check, outcome)
    \/ machine.calls < MaxCalls /\ \E old_port \in {DefaultPort, ObfuscationPort}, old_protocol \in {"udp", "tcp", "tcp6"},
          new_port \in {DefaultPort, ObfuscationPort}, new_protocol \in {"udp", "tcp", "tcp6"},
          oracle \in Oracles :
           CallSyncFirewallForTransportChange(old_port, old_protocol, new_port, new_protocol,
                                              oracle)
    \/ machine.calls < MaxCalls /\ \E a \in HttpsPorts, b \in HttpsPorts, c \in HttpsPorts, d \in HttpsPorts,
          oracle \in Oracles : CallSyncHttpsFirewallPorts(a, b, c, d, oracle)
    \/ machine.calls < MaxCalls /\ \E old_ipv6 \in BOOLEAN, new_ipv6 \in BOOLEAN, new_timezone \in {"UTC", "Asia/Tehran", " "},
          b \in HttpsPorts, d \in HttpsPorts, oracle \in Oracles :
           CallSyncSystemGeneralSettings(old_ipv6, new_ipv6, "UTC", new_timezone, b, d, oracle)
    \/ machine.calls < MaxCalls /\ \E previous_mode \in {"standard", "http_proxy_basic"},
          previous_proxy_port \in {DefaultProxyPort, 3128}, settings \in AutomationRows,
          oracle \in Oracles :
           CallApplyModeAutomation(previous_mode, previous_proxy_port, settings, oracle)

SpecAutomation == InitAutomation /\ [][NextAutomation]_vars

(***************************************************************************)
(* The request handlers.  A handler's result records the steps it took.    *)
(***************************************************************************)
\* OpenVPNSettingsBase.validate_obfuscation_fields: the payload as the handler
\* receives it
ValidateObfuscationFields(p) ==
    LET effective_protocol == IF p.obfuscation_mode # "standard" THEN "tcp" ELSE p.protocol
        http == p.obfuscation_mode \in {"http_proxy_basic", "http_proxy_advanced"}
        proxy_server == IF http THEN p.proxy_server ELSE NoneStr
    IN [p EXCEPT
          !.tcp_nodelay = IF IsUdp(effective_protocol) THEN FALSE ELSE p.tcp_nodelay,
          !.fast_io = IF IsUdp(effective_protocol) THEN p.fast_io ELSE FALSE,
          !.explicit_exit_notify = IF IsUdp(effective_protocol) THEN p.explicit_exit_notify ELSE 0,
          !.spoofed_host = IF p.obfuscation_mode \in {"stealth", "http_proxy_advanced"}
                           THEN p.spoofed_host ELSE NoneStr,
          !.proxy_server = proxy_server,
          !.socks_server = IF p.obfuscation_mode = "socks5_proxy_injection"
                           THEN p.socks_server ELSE NoneStr,
          !.socks_port = IF p.obfuscation_mode = "socks5_proxy_injection"
                         THEN p.socks_port ELSE NoneInt,
          !.proxy_port = IF http THEN p.proxy_port ELSE DefaultProxyPort,
          !.proxy_address = proxy_server,
          !.stunnel_port = DefaultStunnelPort, !.sni_domain = NoneStr, !.cdn_domain = <<>>,
          !.ws_path = FirstNonEmpty(p.ws_path, "/stream"),
          !.ws_port = IntOr(p.ws_port, DefaultWsPort)]

Payloads ==
    {ValidateObfuscationFields(
         [DefaultSettings EXCEPT !.port = port, !.protocol = protocol, !.tls_mode = tls_mode,
                                 !.obfuscation_mode = mode, !.proxy_server = proxy_server]) :
        port \in {DefaultPort, ObfuscationPort}, protocol \in {"udp", "tcp"},
        tls_mode \in {"tls-crypt", "tls-auth"}, mode \in ApiModes,
        proxy_server \in {NoneStr, "proxy.example.com"}}

\* _normalize_transport_protocol and the unchanged test of
\* sync_firewall_for_transport_change
TransportUnchanged(old, new) ==
    old.port = new.port /\ NormalizeProto(old.protocol) = NormalizeProto(new.protocol)

Response(op, os_type, server_address, steps, status, result) ==
    [op |-> op, os |-> os_type, server_address |-> server_address,
     steps |-> steps, status |-> status, result |-> result]

InitPipeline ==
    /\ db = DefaultSettings
    /\ general = DefaultGeneral
    /\ machine = InstalledHost(DefaultSettings, TRUE)
    /\ out = Idle

\* PATCH /settings/general
UpdateGeneralSettings(server_address, sync_ok) ==
    LET steps == <<"sync_system_general_settings">>
    IN IF sync_ok
       THEN /\ general' = [general EXCEPT !.server_address = server_address]
            /\ out' = Response("update_general_settings", "", server_address,
                               steps \o <<"commit">>, 200, <<>>)
            /\ UNCHANGED <<db, machine>>
       ELSE /\ out' = Response("update_general_settings", "", server_address,
                               steps \o <<"rollback">>, 500, <<>>)
            /\ UNCHANGED <<db, general, machine>>

\* the outcomes of the processes spawned after the first n
Rest(oracle, n) == IF n >= Len(oracle) THEN <<>> ELSE SubSeq(oracle, n + 1, Len(oracle))

\* generate_server_config on a host: in production the text is written to
\* server.conf, and a failed write is answered like every other exception
WriteServerConfig(m, row, grow) ==
    LET result == GenerateServerConfigResult(row, grow)
    IN IF result.success /\ m.is_production /\ ~m.conf_writable
       THEN [success |-> FALSE, content |-> NoConfig]
       ELSE result

\* control_service: systemctl is run with check set and every exception is
\* answered with success False
ControlService(is_production, outcome) ==
    [success |-> RunCommand(is_production, TRUE, outcome).success,
     issued |-> IF is_production
                THEN <<Spawned(<<"systemctl", "restart", "openvpn-server@server">>, outcome)>>
                ELSE <<>>]

MaxUpdates == 2

\* every process of one request exits with 0, or all do but the k-th
MaxCommands == 9

FailAt(k, outcome) == [i \in 1..k |-> IF i = k THEN outcome ELSE "ok"]

UpdateOracles ==
    {<<>>} \cup {FailAt(k, outcome) : k \in 1..MaxCommands, outcome \in Outcomes \ {"ok"}}

\* the steps of PATCH /settings/openvpn after the mode automation
AfterAutomation(automation, oracle) ==
    LET settings == automation.settings
        a_steps == <<"apply_mode_automation">>
        f_steps == a_steps \o <<"sync_firewall_for_transport_change">>
        g_steps == f_steps \o <<"commit", "generate_server_config">>
        r_steps == g_steps \o <<"control_service">>
        Reply(steps, status) == Response("update_openvpn_settings", "", NoneStr, steps, status,
                                         [before |-> db])
    IN \E m1 \in {[FirewallAfter(machine, automation.issued) EXCEPT
                      !.squid_conf = IF automation.written # NoneInt
                                     THEN automation.written ELSE @,
                      !.calls = @ + 1]} :
       \E firewall \in {SyncFirewallForTransportChange(db.port, db.protocol, settings.port,
                            settings.protocol, machine.is_production,
                            Rest(oracle, Len(automation.issued)))} :
       \E m2 \in {FirewallAfter(m1, firewall.issued)} :
       \E generation \in {WriteServerConfig(m2, settings, general)} :
       \E restart \in {ControlService(machine.is_production,
                           OutcomeAt(oracle, automation.issued \o firewall.issued))} :
           CASE ~automation.success ->
                  /\ out' = Reply(a_steps \o <<"rollback">>, 500)
                  /\ machine' = m1
                  /\ UNCHANGED <<db, general>>
             [] automation.success /\ ~firewall.success ->
                  /\ out' = Reply(f_steps \o <<"rollback">>, 500)
                  /\ machine' = m2
                  /\ UNCHANGED <<db, general>>
             [] automation.success /\ firewall.success /\ ~generation.success ->
                  /\ db' = settings
                  /\ out' = Reply(g_steps, 500)
                  /\ machine' = m2
                  /\ UNCHANGED general
             [] OTHER ->
                  /\ db' = settings
                  /\ out' = Reply(r_steps, IF restart.success THEN 200 ELSE 500)
                  /\ machine' = IF m2.is_production
                                 THEN [m2 EXCEPT
                                          !.server_conf = TransportOf(settings),
                                          !.listening = IF restart.success
                                                        THEN TransportOf(settings) ELSE @]
                                 ELSE m2
                  /\ UNCHANGED general

\* PATCH /settings/openvpn
UpdateOpenvpnSettings(payload, oracle) ==
    /\ machine.calls < MaxUpdates
    /\ \E automation \in {ApplyModeAutomation(db.obfuscation_mode, db.proxy_port, payload,
                                              machine, oracle)} :
           AfterAutomation(automation, oracle)

\* GET /vpn-users/{id}/config/{protocol}/download, protocol openvpn, user found
DownloadConfig(rev, server_address, os_type, has_config) ==
    LET missing == ValidateOpenvpnReadiness(general, db)
        provision == IF has_config THEN <<>> ELSE <<"create_client_certificate">>
        steps == <<"validate_openvpn_readiness">> \o provision \o <<"generate_client_config">>
        config == GenerateClientConfigText(rev, db, general, ClientName,
                      FirstNonEmpty(StrOrEmpty(server_address), "vpn.example.com"),
                      NoneInt, NoneStr, os_type)
    IN /\ out' = IF missing # <<>>
                 THEN Response("download_config", os_type, server_address,
                               <<"validate_openvpn_readiness">>, 400, missing)
                 ELSE IF config = NoConfig
                 THEN Response("download_config", os_type, server_address, steps, 500, <<>>)
                 ELSE Response("download_config", os_type, server_address, steps, 200,
                               config \o << <<>>, <<"auth-user-pass">> >>)
       /\ UNCHANGED <<db, general, machine>>

\* GET /openvpn/clients/{id}/config, client found
GetClientConfig(rev, server_address, active) ==
    LET config == GenerateClientConfigText(rev, db, general, ClientName, server_address,
                                           db.port, db.protocol, "default")
    IN /\ out' = IF ~active
                 THEN Response("get_client_config", "default", server_address, <<>>, 400, <<>>)
                 ELSE IF config = NoConfig
                 THEN Response("get_client_config", "default", server_address,
                               <<"generate_client_config">>, 500, <<>>)
                 ELSE Response("get_client_config", "default", server_address,
                               <<"generate_client_config">>, 200, config)
       /\ UNCHANGED <<db, general, machine>>

NextPipeline ==
    \/ \E a \in {NoneStr, "vpn.example.com"}, ok \in BOOLEAN : UpdateGeneralSettings(a, ok)
    \/ machine.calls < MaxUpdates /\ \E p \in Payloads : UpdateOpenvpnSettings(p, <<>>)
    \/ \E rev \in Revisions, a \in AddressArguments, os \in {"ios", "android", "default"},
          c \in BOOLEAN : DownloadConfig(rev, a, os, c)
    \/ \E rev \in Revisions, a \in AddressArguments, active \in BOOLEAN :
           GetClientConfig(rev, a, active)

SpecPipeline == InitPipeline /\ [][NextPipeline]_vars

(***************************************************************************)
(* Sequences of settings updates on a production host whose processes may  *)
(* fail and whose server.conf may not be writable.                         *)
(***************************************************************************)
UpdatePayloads ==
    {ValidateObfuscationFields(
         [DefaultSettings EXCEPT !.port = port, !.protocol = protocol,
                                 !.obfuscation_mode = mode,
                                 !.proxy_server = "proxy.example.com"]) :
        port \in {DefaultPort, ObfuscationPort}, protocol \in {"udp", "tcp"},
        mode \in {"standard", "stealth", "http_proxy_basic"}}

InitSettings ==
    /\ db = DefaultSettings
    /\ general = DefaultGeneral
    /\ machine \in {[InstalledHost(DefaultSettings, TRUE) EXCEPT !.conf_writable = w] :
                       w \in BOOLEAN}
    /\ out = Idle

NextSettings ==
    machine.calls < MaxUpdates /\ \E p \in UpdatePayloads, oracle \in UpdateOracles :
        UpdateOpenvpnSettings(p, oracle)

SpecSettings == InitSettings /\ [][NextSettings]_vars

(***************************************************************************)
(* Properties of the transport policy and of the synthesized files.        *)
(***************************************************************************)
LinesNamed(lines, name) == SelectSeq(lines, LAMBDA l : l # <<>> /\ l[1] = name)

ModeOfRow == NormalizeMode(db.obfuscation_mode)

\* the server address a client operation resolves
ServerOfOut == ResolvedServer(out.server_address, LoadRuntimeSettings(db, general).general)

IsDecision == out.op = "decide"
IsServerFile == out.op = "server" /\ out.result.success
IsClientFile == out.op = "client" /\ out.result # NoConfig

\* the server configuration synthesized from the settings of the state
ServerFile == GenerateServerConfigResult(db, general).content

\* C1: in every mode other than standard the protocol of the transport
\* decision, the proto line of the server configuration and the proto line of
\* every platform's client configuration are tcp, whatever protocol the
\* settings carry.
C1_NonStandardModeIsTcp ==
    ModeOfRow # "standard" =>
        /\ IsDecision => out.result.protocol = "tcp"
        /\ IsServerFile => LinesNamed(out.result.content, "proto") = << <<"proto", "tcp">> >>
        /\ IsClientFile => LinesNamed(out.result, "proto") = << <<"proto", "tcp">> >>

C1_Witness ==
    /\ ModeOfRow = "socks5_proxy_injection" /\ db.protocol = "udp6"
    /\ IsClientFile /\ out.os = "ios"
    /\ LinesNamed(out.result, "proto") = << <<"proto", "tcp">> >>

\* C2: in every mode other than standard the server configuration carries the
\* tls-crypt directive and the client configuration embeds a <tls-crypt>
\* block and no key-direction line, whatever tls_mode the settings carry.
C2_NonStandardModeIsTlsCrypt ==
    ModeOfRow # "standard" =>
        /\ IsServerFile => /\ LinesNamed(out.result.content, "tls-crypt") # <<>>
                           /\ LinesNamed(out.result.content, "tls-auth") = <<>>
        /\ IsClientFile => /\ LinesNamed(out.result, "<tls-crypt>") # <<>>
                           /\ LinesNamed(out.result, "<tls-auth>") = <<>>
                           /\ LinesNamed(out.result, "key-direction") = <<>>

\* C3: for mode stealth the decision is protocol tcp, remote <server> 443 and
\* the directives http-proxy <target> <proxy_port>, http-proxy-retry and, only
\* when a spoofed host is set, http-proxy-option CUSTOM-HEADER Host <host>.
C3_StealthDecision ==
    IsDecision /\ ModeOfRow = "stealth" =>
        LET target == FirstNonEmpty(StrOrEmpty(db.proxy_server),
                                    FirstNonEmpty(StrOrEmpty(db.proxy_address), ServerOfOut))
        IN /\ out.result.protocol = "tcp"
           /\ out.result.remote = RemoteLine(ServerOfOut, 443)
           /\ out.result.directives =
                  << <<"http-proxy", target, ToString(db.proxy_port)>>, <<"http-proxy-retry">> >>
                  \o If(StrOrEmpty(db.spoofed_host) # "",
                        << <<"http-proxy-option", "CUSTOM-HEADER", "Host", db.spoofed_host>> >>)

\* the modes whose remote target is the server itself
ServerIsRemoteTarget ==
    ModeOfRow \in {"standard", "stealth", "http_proxy_basic", "http_proxy_advanced",
                   "socks5_proxy_injection"}

\* C4: the port and proto lines of the server configuration equal the port of
\* the remote line and the proto line of the client configuration synthesized
\* from the same settings, for every platform and every mode whose remote
\* target is the server itself.
C4_ServerAndClientAgree ==
    IsClientFile /\ ServerIsRemoteTarget =>
        /\ Len(LinesNamed(out.result, "remote")) = 1
        /\ LinesNamed(ServerFile, "port") = << <<"port", LinesNamed(out.result, "remote")[1][3]>> >>
        /\ LinesNamed(ServerFile, "proto") = LinesNamed(out.result, "proto")

\* the remote line of the mode table
TableRemote ==
    CASE ModeOfRow = "standard" -> RemoteLine(ServerOfOut, db.port)
      [] ModeOfRow = "tls_tunnel" -> RemoteLine("127.0.0.1", db.stunnel_port)
      [] ModeOfRow = "websocket_cdn" ->
           RemoteLine(FirstNonEmpty(ExtractRemoteHostname(db.cdn_domain), ServerOfOut), 443)
      [] OTHER -> RemoteLine(ServerOfOut, 443)

C6_StandardDecision ==
    IsDecision /\ ModeOfRow = "standard" =>
        /\ out.result.protocol = db.protocol
        /\ out.result.remote = RemoteLine(ServerOfOut, db.port)
        /\ out.result.directives = <<>>

C6_Witness ==
    /\ IsDecision /\ ModeOfRow = "standard"
    /\ db.proxy_server # NoneStr /\ db.socks_server # NoneStr /\ db.cdn_domain # <<>>
    /\ db.protocol = "udp" /\ db.port = DefaultPort
    /\ out.result = [protocol |-> "udp", remote |-> RemoteLine(ServerOfOut, DefaultPort),
                     directives |-> <<>>]

\* C7: no platform's client configuration contains comp-lzo or compress,
\* whatever the settings and the platform's custom blob hold.
C7_NoCompressionText ==
    IsClientFile =>
        \A i \in 1..Len(out.result) :
            ~Contains(out.result[i], "compress") /\ ~Contains(out.result[i], "comp-lzo")

C9_ReadinessExactly ==
    out.op = "readiness" =>
        (out.result # <<>>
         <=> \/ general.server_address \in {NoneStr, "", " "}
             \/ db.port \in {NoneInt, 0}
             \/ db.protocol \in {NoneStr, "", " "}
             \/ db.obfuscation_mode # "standard" /\ db.proxy_port \in {NoneInt, 0}
             \/ /\ db.obfuscation_mode \in {"http_proxy_basic", "http_proxy_advanced"}
                /\ db.proxy_address \in {NoneStr, "", " "})

C9_Witness ==
    /\ out.op = "readiness"
    /\ general.server_address = "vpn.example.com" /\ db.port = DefaultPort /\ db.protocol = "udp"
    /\ db.obfuscation_mode = "http_proxy_advanced" /\ db.proxy_port = DefaultProxyPort
    /\ db.proxy_address = NoneStr
    /\ out.result = <<"Proxy Address (Required for HTTP Proxy)">>

\* the steps that synthesize a configuration or change the operating system
WorkSteps ==
    {"apply_mode_automation", "sync_firewall_for_transport_change", "generate_server_config",
     "control_service", "create_client_certificate", "generate_client_config"}

StartedWork == out.op # "none" /\ \E i \in 1..Len(out.steps) : out.steps[i] \in WorkSteps

\* C10: no synthesis and no automation is started before the readiness check
\* has run and answered the empty list.
C10_ReadinessGatesWork ==
    StartedWork =>
        /\ out.steps[1] = "validate_openvpn_readiness"
        /\ ValidateOpenvpnReadiness(general, db) = <<>>

(***************************************************************************)
(* Properties of the settings update and of the firewall orchestration.    *)
(***************************************************************************)
IsUpdate == out.op = "update_openvpn_settings"

\* C11: a settings change is never partially applied: when the update fails at
\* any step the persisted settings equal the settings before the request.
C11_NeverPartiallyApplied ==
    (IsUpdate /\ out.status # 200) => db = out.result.before

\* the firewall rule that admits a transport
FirewallRule(transport) == <<transport[1], NormalizeTransportProtocol(transport[2])>>

\* the rules of the ports an OpenVPN server of the model can listen on
TransportRules ==
    {Rule(port, proto) : port \in {DefaultPort, ObfuscationPort}, proto \in {"udp", "tcp"}}

PersistedIsAllowed == FirewallRule(TransportOf(db)) \in machine.allowed
ServedIsAllowed == FirewallRule(machine.server_conf) \in machine.allowed
OnlyListeningIsAllowed ==
    \A rule \in machine.allowed \cap TransportRules : rule = FirewallRule(machine.listening)

\* C12: after any sequence of settings updates, successful or failed, the
\* transport that the persisted settings and server.conf name is allowed by the
\* firewall, and no transport the server does not listen on is left allowed.
C12_FirewallAgreesWithConfiguration ==
    IsUpdate => PersistedIsAllowed /\ ServedIsAllowed /\ OnlyListeningIsAllowed

IsTransportSync == out.op = "sync_firewall_for_transport_change"
TransportChanged == IsTransportSync /\ out.args.old # out.args.new
InProduction == machine.is_production

\* the positions of the spawned processes that ran the command
PositionsOf(cmd) ==
    {i \in 1..Len(out.result.issued) : out.result.issued[i].cmd = cmd}

\* the positions of the spawned processes that ran the command and failed
FailedPositionsOf(cmd) ==
    {i \in PositionsOf(cmd) : out.result.issued[i].outcome # "ok"}

\* C13: on a transport change, the allow for the new port/protocol is issued
\* before any removal of the old rule, and when the removal of the old rule
\* fails an explicit deny for the old port/protocol is issued.
C13_AllowFirstDenyOnFailedRemoval ==
    (TransportChanged /\ InProduction) =>
        /\ \A i \in PositionsOf(<<"ufw", "delete", "allow">> \o out.args.old) :
               \E j \in PositionsOf(<<"ufw", "allow">> \o out.args.new) : j < i
        /\ \A i \in FailedPositionsOf(<<"ufw", "delete", "allow">> \o out.args.old) :
               \E j \in PositionsOf(<<"ufw", "deny">> \o out.args.old) : j > i

AllowOfNewSucceeded ==
    /\ TransportChanged /\ InProduction
    /\ out.result.issued # <<>>
    /\ out.result.issued[1] = Spawned(<<"ufw", "allow">> \o out.args.new, "ok")

\* C14: a transport change whose allow of the new port/protocol succeeded is
\* reported as success with a message, also when the removal of the old rule
\* and the fallback deny both failed.
C14_AllowedNewIsSuccess ==
    AllowOfNewSucceeded => out.result.success /\ out.result.message # ""

IsHttpsSync == out.op = "sync_https_firewall_ports"
IssuedCommands == [i \in 1..Len(out.result.issued) |-> out.result.issued[i].cmd]
HttpsAllows == {UfwAllow(port, "tcp") : port \in out.args.new \ out.args.old}
HttpsRemoves == {UfwDeleteAllow(port, "tcp") : port \in out.args.old \ out.args.new}

\* in a sequence of commands the allows are those of new minus old, the
\* removals those of old minus new, and every allow precedes every removal
HttpsDiffInOrder(commands) ==
    /\ \A i \in 1..Len(commands) :
           /\ commands[i][2] = "allow" => commands[i] \in HttpsAllows
           /\ commands[i][2] = "delete" => commands[i] \in HttpsRemoves
    /\ \A i, j \in 1..Len(commands) :
           (commands[i][2] = "allow" /\ commands[j][2] = "delete") => i < j

\* C15: sync_https_firewall_ports allows new minus old and removes old minus
\* new, issues every allow before any removal, issues no command when the two
\* sets are equal, and issues an explicit deny for each removal that fails.
C15_HttpsDiffWithDenyFallback ==
    (IsHttpsSync /\ InProduction) =>
        /\ out.args.old = out.args.new => out.result.issued = <<>>
        /\ HttpsDiffInOrder(IssuedCommands)
        /\ out.result.success =>
               HttpsAllows \cup HttpsRemoves \subseteq {IssuedCommands[i] : i \in 1..Len(IssuedCommands)}
        /\ \A i \in 1..Len(IssuedCommands) :
               (IssuedCommands[i] \in HttpsRemoves /\ out.result.issued[i].outcome # "ok") =>
                   /\ i < Len(IssuedCommands)
                   /\ IssuedCommands[i + 1] = <<"ufw", "deny">> \o SubSeq(IssuedCommands[i], 4, 5)

IsRunCommand == out.op = "run_command"

\* C16: in production the command executor reports failure for every command
\* that exits with a non-zero status or whose binary is missing: a command that
\* failed is never reported as successful.
C16_FailedCommandIsNeverSuccess ==
    (IsRunCommand /\ InProduction /\ out.args.outcome # "ok") => ~out.result.success

IsOrchestration ==
    out.op \in {"apply_mode_automation", "sync_firewall_for_transport_change",
                "sync_https_firewall_ports", "sync_system_general_settings"}

\* a command that only asks whether something is present
IsProbe(cmd) == cmd[1] = "dpkg-query" \/ (cmd[1] = "iptables" /\ cmd[2] = "-C")

\* the j-th process is the fallback deny of the removal run by the i-th
IsFallbackOf(i, j) ==
    /\ j = i + 1 /\ j <= Len(IssuedCommands)
    /\ SubSeq(IssuedCommands[i], 1, 3) = <<"ufw", "delete", "allow">>
    /\ IssuedCommands[j] = <<"ufw", "deny">> \o SubSeq(IssuedCommands[i], 4, 5)

\* the i-th process is a step that failed and was not compensated
FailedStep(i) ==
    /\ out.result.issued[i].outcome # "ok"
    /\ ~IsProbe(IssuedCommands[i])
    /\ ~(IsFallbackOf(i, i + 1) /\ out.result.issued[i + 1].outcome = "ok")

\* C17: within one orchestration call, once a step fails and is not
\* compensated by its fallback, the call returns failure and no later command
\* is issued.
C17_StopsAtFirstFailure ==
    (IsOrchestration /\ InProduction) =>
        \A i \in 1..Len(IssuedCommands) :
            FailedStep(i) =>
                /\ ~out.result.success
                /\ \A j \in (i + 1)..Len(IssuedCommands) : IsFallbackOf(i, j)

\* the processes named in a list of commands; a "write" entry records a file
\* written, not a process
ProcessesIn(commands) == SelectSeq(commands, LAMBDA cmd : cmd[1] # "write")

ReturnedFailure == IsOrchestration /\ InProduction /\ ~out.result.raised /\ ~out.result.success

\* C18: when an orchestration call returns failure, the commands list of its
\* result contains, in execution order, every command executed during the call
\* before the failure.
C18_FailureListsExecutedCommands ==
    ReturnedFailure => ProcessesIn(out.result.commands) = IssuedCommands

IsAutomation == out.op = "apply_mode_automation"

\* what the same automation call spawns on the fully equipped production host
\* when every process exits with 0
ProductionRun ==
    ApplyModeAutomation(out.args.previous_mode, out.args.previous_proxy_port,
                        out.args.settings, InstalledHost(DefaultSettings, TRUE), <<>>)

NamesWhatProductionRuns ==
    /\ IsAutomation =>
           ProcessesIn(out.result.commands) =
               [i \in 1..Len(ProductionRun.issued) |-> ProductionRun.issued[i].cmd]
    /\ IsTransportSync =>
           out.result.commands =
               IF TransportChanged
               THEN << <<"ufw", "allow">> \o out.args.new,
                       <<"ufw", "delete", "allow">> \o out.args.old >>
               ELSE <<>>
    /\ out.op \in {"sync_https_firewall_ports", "sync_system_general_settings"} =>
           LET ufw == SelectSeq(out.result.commands, LAMBDA cmd : cmd[1] = "ufw")
           IN /\ {ufw[i] : i \in 1..Len(ufw)} = HttpsAllows \cup HttpsRemoves
              /\ HttpsDiffInOrder(ufw)

\* C19: in non-production mode every automation entry point spawns no process
\* and writes no file, returns success, and returns the commands it would have
\* run, also when the OS tools are missing.
C19_MockRunsNothingAndSucceeds ==
    (IsOrchestration /\ ~InProduction) =>
        /\ out.result.issued = <<>>
        /\ machine.squid_conf = NoneInt
        /\ out.result.success /\ ~out.result.raised
        /\ NamesWhatProductionRuns

\* C20: when apply_mode_automation is called with a non-standard mode and
\* returns success, the settings object has port 443, protocol tcp and tls_mode
\* tls-crypt, and enforced_values names exactly the fields whose value the call
\* changed.
C20_OverridesEnforcedAndRecorded ==
    (IsAutomation /\ out.result.success /\ out.args.settings.obfuscation_mode # "standard") =>
        /\ out.result.settings.port = 443
        /\ out.result.settings.protocol = "tcp"
        /\ out.result.settings.tls_mode = "tls-crypt"
        /\ out.result.enforced_values =
               {field \in DOMAIN out.args.settings :
                    out.result.settings[field] # out.args.settings[field]}

(***************************************************************************)
(* Properties of the proxy daemon life cycle in apply_mode_automation.     *)
(***************************************************************************)
\* the positions in the command log of the call whose command satisfies Is
LogPositions(Is(_)) ==
    {i \in 1..Len(out.result.commands) : Is(out.result.commands[i])}

AllBefore(first, second) == \A i \in first, j \in second : i < j

\* the command allows (ufw allow, iptables -C / -A) the tcp port
AllowsPort(cmd, port) ==
    \/ cmd = UfwAllow(port, "tcp")
    \/ cmd[1] = "iptables" /\ cmd[2] \in {"-C", "-A"} /\ cmd[7] = ToString(port)

\* the command denies (ufw deny, iptables -D) the tcp port
DeniesPort(cmd, port) ==
    \/ cmd = UfwDeny(port, "tcp")
    \/ cmd[1] = "iptables" /\ cmd[2] = "-D" /\ cmd[7] = ToString(port)

InstallSteps == LogPositions(LAMBDA cmd : cmd[1] \in {"dpkg-query", "apt-get"})
WriteSteps == LogPositions(LAMBDA cmd : cmd[1] = "write")
EnableSteps == LogPositions(LAMBDA cmd : cmd = <<"systemctl", "enable", "squid">>)
RestartSteps == LogPositions(LAMBDA cmd : cmd = <<"systemctl", "restart", "squid">>)
StopSteps == LogPositions(LAMBDA cmd : cmd = <<"systemctl", "stop", "squid">>)
DisableSteps == LogPositions(LAMBDA cmd : cmd = <<"systemctl", "disable", "squid">>)
AllowProxySteps == LogPositions(LAMBDA cmd : AllowsPort(cmd, out.result.settings.proxy_port))
DenyOldProxySteps == LogPositions(LAMBDA cmd : DeniesPort(cmd, out.args.previous_proxy_port))

NewModeNeedsProxy ==
    NormalizeMode(out.args.settings.obfuscation_mode) \in {"http_proxy_basic", "http_proxy_advanced"}
OldModeNeededProxy ==
    NormalizeMode(out.args.previous_mode) \in {"http_proxy_basic", "http_proxy_advanced"}
ProxyPortMoved == out.args.previous_proxy_port # out.result.settings.proxy_port

\* the proxy daemon is set up in order, and a successful call has taken every
\* step of the set-up
ProxySetUpInOrder ==
    /\ AllBefore(InstallSteps, WriteSteps) /\ AllBefore(WriteSteps, EnableSteps)
    /\ AllBefore(EnableSteps, RestartSteps) /\ AllBefore(RestartSteps, AllowProxySteps)
    /\ AllBefore(AllowProxySteps, DenyOldProxySteps)
    /\ out.result.success =>
           /\ InProduction => InstallSteps # {}
           /\ WriteSteps # {} /\ EnableSteps # {} /\ RestartSteps # {}
           /\ AllowProxySteps # {}
           /\ (OldModeNeededProxy /\ ProxyPortMoved) => DenyOldProxySteps # {}

LeavesProxyMode == IsAutomation /\ OldModeNeededProxy /\ ~NewModeNeedsProxy
DenyCurrentProxySteps ==
    LogPositions(LAMBDA cmd : DeniesPort(cmd, out.args.settings.proxy_port))

\* C22: when leaving a proxy-requiring mode, apply_mode_automation denies the
\* old proxy port first, then stops and then disables the proxy daemon; and when
\* the new mode is standard with a proxy port still configured, that port is
\* denied as cleanup after the daemon has been torn down.
C22_ProxyTornDownInOrder ==
    LeavesProxyMode =>
        /\ out.result.commands # <<>> => 1 \in DenyOldProxySteps
        /\ AllBefore({1}, StopSteps) /\ AllBefore(StopSteps, DisableSteps)
        /\ out.result.success =>
               /\ 1 \in DenyOldProxySteps /\ StopSteps # {} /\ DisableSteps # {}
               /\ NormalizeMode(out.args.settings.obfuscation_mode) = "standard" =>
                      \E i \in DenyCurrentProxySteps : AllBefore(DisableSteps, {i})

C22_Witness ==
    /\ LeavesProxyMode /\ InProduction /\ out.result.success
    /\ NormalizeMode(out.args.settings.obfuscation_mode) = "standard"
    /\ out.args.previous_proxy_port # out.args.settings.proxy_port
    /\ StopSteps # {} /\ DisableSteps # {} /\ DenyCurrentProxySteps # {}

\* no command occurs twice in the sequence
NoCommandTwice(commands) ==
    \A i, j \in 1..Len(commands) : commands[i] = commands[j] => i = j

\* C23: no OS command is attempted more than once within one orchestration
\* call: the command log of a single apply_mode_automation,
\* sync_firewall_for_transport_change or sync_https_firewall_ports call contains
\* no command twice.
C23_NoCommandTwice ==
    out.op \in {"apply_mode_automation", "sync_firewall_for_transport_change",
                "sync_https_firewall_ports"} =>
        NoCommandTwice(out.result.commands) /\ NoCommandTwice(IssuedCommands)

(***************************************************************************)
(* Properties of the protocol-dependent directives and of the block order. *)
(***************************************************************************)
\* the lines of the file in out, server or client
FileLines ==
    IF IsServerFile THEN out.result.content ELSE IF IsClientFile THEN out.result ELSE <<>>

\* the protocol the file names on its proto line
FileProtocol ==
    LET proto == LinesNamed(FileLines, "proto") IN IF proto = <<>> THEN "" ELSE proto[1][2]

ClientText ==
    IF IsClientFile THEN out.result
    ELSE IF out.op \in {"download_config", "get_client_config"} /\ out.status = 200
    THEN out.result ELSE <<>>

PemTags == {"<ca>", "</ca>", "<cert>", "</cert>", "<key>", "</key>",
            "<tls-crypt>", "</tls-crypt>", "<tls-auth>", "</tls-auth>"}

PemPositions(lines) == {i \in 1..Len(lines) : lines[i] # <<>> /\ lines[i][1] \in PemTags}

\* a line that is neither blank, nor a comment, nor part of the PEM material
DirectivePositions(lines) ==
    {i \in 1..Len(lines) :
        /\ lines[i] # <<>> /\ ~IsComment(lines[i])
        /\ \/ PemPositions(lines) = {}
           \/ \A p \in PemPositions(lines) : i < p
           \/ \A p \in PemPositions(lines) : i > p}

ObfuscationDirectiveNames ==
    {"http-proxy", "http-proxy-retry", "http-proxy-option", "socks-proxy", "socks-proxy-retry"}

ObfuscationPositions(lines) ==
    {i \in 1..Len(lines) : lines[i] # <<>> /\ lines[i][1] \in ObfuscationDirectiveNames}

\* the header the builders put in front of the custom blob
CustomHeaders ==
    {<<"#", "Custom Apple Directives">>, <<"#", "Custom ANDROID Directives">>,
     <<"#", "Custom WINDOWS Directives">>, <<"#", "Custom Directives">>}

CustomPositions(lines) == {i \in 1..Len(lines) : lines[i] \in CustomHeaders}

AuthPositions(lines) ==
    {i \in 1..Len(lines) : lines[i] # <<>> /\ lines[i][1] \in {"auth-user-pass", "auth-nocache"}}

Precede(first, second) == \A i \in first, j \in second : i < j

\* C25: in every client configuration the obfuscation directives come first,
\* then the platform custom blob, then the authentication block, and last the
\* PEM blocks; no directive line follows the PEM material.
C25_BlocksInFixedOrder ==
    LET lines == ClientText
    IN /\ Precede(ObfuscationPositions(lines), CustomPositions(lines))
       /\ Precede(CustomPositions(lines), AuthPositions(lines))
       /\ Precede(AuthPositions(lines), PemPositions(lines))
       /\ Precede(DirectivePositions(lines), PemPositions(lines))

(***************************************************************************)
(* The final sanity check of the generic builder, applied to assembled     *)
(* texts from which the client declaration, the remote directive or both   *)
(* have been left out.                                                     *)
(***************************************************************************)
CoreDirectives == {"client", "remote"}

Without(lines, names) == SelectSeq(lines, LAMBDA l : l = <<>> \/ l[1] \notin names)

InitSanity ==
    /\ db \in Payloads
    /\ general = DefaultGeneral
    /\ machine = InstalledHost(DefaultSettings, TRUE)
    /\ out = Idle

CallFinalSanityCheck(os_type, left_out) ==
    LET assembled == GenerateGenericConfig("feature", ClientName, db, general, NoneStr,
                                           NoneInt, NoneStr, os_type)
        text == Without(assembled, left_out)
    IN /\ out' = [op |-> "final_sanity_check", os |-> os_type, server_address |-> NoneStr,
                  text |-> text, result |-> FinalSanityCheck(text)]
       /\ UNCHANGED <<db, general, machine>>

NextSanity ==
    \E os \in {"windows", "default"}, left_out \in SUBSET CoreDirectives :
        CallFinalSanityCheck(os, left_out)

SpecSanity == InitSanity /\ [][NextSanity]_vars

MaxLogLines == 3

\* _build_ssl_targets
BuildSslTargets(panel_domain, subscription_domain) ==
    If(Strip(panel_domain) # "", <<"Panel Domain">>)
    \o If(Strip(subscription_domain) # "", <<"Subscription Domain">>)

Stream(targets, at, pc, process, pending, exit, started) ==
    [op |-> "issue_ssl_certificate", targets |-> targets, at |-> at, pc |-> pc,
     process |-> process, pending |-> pending, exit |-> exit, started |-> started]

InitIssue ==
    /\ db = DefaultSettings
    /\ general = DefaultGeneral
    /\ machine \in {InstalledHost(DefaultSettings, p) : p \in BOOLEAN}
    /\ out = Idle

\* the handler up to the streaming response: no line has been produced yet
IssueSslCertificate(panel_domain, subscription_domain) ==
    /\ out.op = "none"
    /\ out' = IF Strip(panel_domain) = "" /\ Strip(subscription_domain) = ""
              THEN Response("issue_ssl_certificate", "", NoneStr, <<>>, 400, <<>>)
              ELSE Stream(BuildSslTargets(panel_domain, subscription_domain), 0, "begin",
                          "none", 0, "ok", <<>>)
    /\ UNCHANGED <<db, general, machine>>

IsStream == out.op = "issue_ssl_certificate" /\ "pc" \in DOMAIN out

\* the generator after a domain is done: the next domain or the closing line
NextTarget(s) ==
    IF s.at < Len(s.targets)
    THEN [s EXCEPT !.at = @ + 1, !.pc = "starting", !.process = "none"]
    ELSE [s EXCEPT !.pc = "completed"]

\* for line in process.stdout, then process.wait(): a line is handed on, or
\* the output has ended and the exit code decides
ReadOutput(s) ==
    IF s.pending > 0
    THEN [s EXCEPT !.pc = "line", !.pending = @ - 1]
    ELSE [s EXCEPT !.process = "exited", !.pc = IF s.exit = "ok" THEN "success" ELSE "failed"]

\* the consumer asks for the next line: the generator runs to its next yield
ResumeStream(lines, exit, spawn) ==
    /\ IsStream
    /\ out.pc \notin {"returned", "closed"}
    /\ out' =
         CASE out.pc = "begin" ->
                IF machine.is_production THEN NextTarget(out) ELSE [out EXCEPT !.pc = "mock_banner"]
           [] out.pc = "mock_banner" -> NextTarget(out)
           [] out.pc = "starting" ->
                IF machine.is_production THEN [out EXCEPT !.pc = "command"] ELSE NextTarget(out)
           [] out.pc = "command" ->
                IF spawn = "missing"
                THEN [out EXCEPT !.pc = "error"]
                ELSE ReadOutput([out EXCEPT !.process = "running", !.pending = lines,
                                            !.exit = exit,
                                            !.started = Append(@, out.targets[out.at])])
           [] out.pc = "line" -> ReadOutput(out)
           [] out.pc = "success" -> NextTarget(out)
           [] OTHER -> [out EXCEPT !.pc = "returned"]
    /\ UNCHANGED <<db, general, machine>>

\* the consumer closes the stream: GeneratorExit is raised at the yield the
\* generator is suspended at; inside the read loop the finally clause closes
\* the pipe, and nothing else is done to the process
CloseStream ==
    /\ IsStream
    /\ out.pc \notin {"returned", "closed"}
    /\ out' = [out EXCEPT !.pc = "closed"]
    /\ UNCHANGED <<db, general, machine>>

\* a process left behind with a closed pipe: it runs to its end, or dies on
\* its next write
ProcessAfterClose(how) ==
    /\ IsStream
    /\ out.pc = "closed" /\ out.process = "running"
    /\ how = "broken_pipe" => out.pending > 0
    /\ out' = [out EXCEPT !.process = IF how = "broken_pipe" THEN "broken_pipe" ELSE "exited",
                          !.pending = 0]
    /\ UNCHANGED <<db, general, machine>>

NextIssue ==
    \/ \E p, s \in {"", "vpn.example.com"} : IssueSslCertificate(p, s)
    \/ \E lines \in 0..MaxLogLines, exit \in {"ok", "nonzero"}, spawn \in {"ok", "missing"} :
           ResumeStream(lines, exit, spawn)
    \/ CloseStream
    \/ \E how \in {"completes", "broken_pipe"} : ProcessAfterClose(how)

SpecIssue == InitIssue /\ [][NextIssue]_vars

\* C27: when the consumer closes the log stream before the certificate tool
\* has finished, the external process is terminated and does not keep
\* running, and no further domain's issuance is started.
C27_ClosedStreamLeavesNoProcess ==
    (IsStream /\ out.pc = "closed") =>
        /\ out.process # "running"
        /\ Len(out.started) <= out.at

(***************************************************************************)
(* The platform directive filters applied to a sequence of lines, once and *)
(* again to their own result.  The Apple builder has two: the loop over    *)
(* the custom blob and the final sanitize pass over all lines.             *)
(***************************************************************************)
FilterPasses(os_type) == IF os_type \in ApplePlatforms THEN {"blob", "final"} ELSE {"blob"}

PlatformFilter(os_type, pass, lines) ==
    CASE os_type \in ApplePlatforms /\ pass = "final" -> SanitizePass(lines)
      [] os_type \in ApplePlatforms -> CustomAppleFilter(lines)
      [] os_type = "android" -> CustomAndroidFilter(lines)
      [] OTHER -> CustomGenericFilter(lines)

InitIdempotence ==
    /\ db = DefaultSettings
    /\ general = DefaultGeneral
    /\ machine = InstalledHost(DefaultSettings, TRUE)
    /\ out = Idle

ApplyPlatformFilter(os_type, pass, lines) ==
    /\ out' = [op |-> "platform_filter", os |-> os_type, server_address |-> NoneStr,
               pass |-> pass, lines |-> lines,
               result |-> PlatformFilter(os_type, pass, lines),
               again |-> PlatformFilter(os_type, pass, PlatformFilter(os_type, pass, lines))]
    /\ UNCHANGED <<db, general, machine>>

NextIdempotence ==
    \E os \in Platforms, lines \in Blobs :
        \E pass \in FilterPasses(os) : ApplyPlatformFilter(os, pass, lines)

SpecIdempotence == InitIdempotence /\ [][NextIdempotence]_vars

\* C28: the platform directive filter is idempotent: filtering a filtered
\* sequence of lines returns it unchanged, for every platform and sequence.
C28_PlatformFilterIdempotent ==
    out.op = "platform_filter" => out.again = out.result

\* a blob of which the filter dropped a line and kept a line
C28_Witness ==
    /\ out.op = "platform_filter"
    /\ out.result # <<>>
    /\ Len(out.result) < Len(out.lines)

(***************************************************************************)
(* The certificate clients of /openvpn/clients.  The database holds the    *)
(* settings row and the vpn_clients rows; the host holds the certificate   *)
(* files of the clients.  A row that was deleted is not created again.     *)
(***************************************************************************)
ClientIds == {1, 2}

NoClient == [status |-> "absent", is_enabled |-> FALSE]

ClientFound(id) == db.vpn_clients[id].status \in {"active", "revoked"}

ClientResponse(op, id, status, result) ==
    [op |-> op, os |-> "default", server_address |-> NoneStr, client_id |-> id,
     status |-> status, result |-> result]

InitClients ==
    /\ db = [settings |-> DefaultSettings, vpn_clients |-> [id \in ClientIds |-> NoClient]]
    /\ general = DefaultGeneral
    /\ machine \in {[is_production |-> p, issued |-> {}] : p \in BOOLEAN}
    /\ out = Idle

\* easyrsa run with check set: a non-zero exit raises, and the caller's
\* handler answers success False; the mock always succeeds
EasyrsaSucceeds(outcome) == ~machine.is_production \/ outcome = "ok"

\* POST /openvpn/clients
CreateClient(id, outcome) ==
    /\ db.vpn_clients[id].status # "deleted"
    /\ IF ClientFound(id)
       THEN /\ out' = ClientResponse("create_client", id, 400, <<>>)
            /\ UNCHANGED <<db, machine>>
       ELSE IF ~EasyrsaSucceeds(outcome)
       THEN /\ out' = ClientResponse("create_client", id, 500, <<>>)
            /\ UNCHANGED <<db, machine>>
       ELSE /\ db' = [db EXCEPT !.vpn_clients[id] = [status |-> "active", is_enabled |-> TRUE]]
            /\ machine' = [machine EXCEPT !.issued = @ \cup {id}]
            /\ out' = ClientResponse("create_client", id, 201, <<>>)
    /\ UNCHANGED general

\* PATCH /openvpn/clients/{id}
UpdateClient(id, is_enabled) ==
    /\ IF ~ClientFound(id)
       THEN /\ out' = ClientResponse("update_client", id, 404, <<>>)
            /\ UNCHANGED db
       ELSE /\ db' = [db EXCEPT !.vpn_clients[id].is_enabled = is_enabled]
            /\ out' = ClientResponse("update_client", id, 200, <<>>)
    /\ UNCHANGED <<general, machine>>

\* revoke_client_certificate: easyrsa revoke, then easyrsa gen-crl.  Whether
\* the revoked certificate and key stay under issued/ and private/ is the
\* tool's choice.
RevokeClientCertificate(m, id, revoke, crl, keeps_files) ==
    IF ~m.is_production THEN [success |-> TRUE, machine |-> m]
    ELSE IF revoke # "ok" THEN [success |-> FALSE, machine |-> m]
    ELSE [success |-> crl = "ok",
          machine |-> [m EXCEPT !.issued = IF keeps_files THEN @ ELSE @ \ {id}]]

\* POST /openvpn/clients/{id}/revoke
RevokeClient(id, revoke, crl, keeps_files) ==
    LET result == RevokeClientCertificate(machine, id, revoke, crl, keeps_files)
    IN /\ IF ~ClientFound(id)
          THEN /\ out' = ClientResponse("revoke_client", id, 404, <<>>)
               /\ UNCHANGED <<db, machine>>
          ELSE IF db.vpn_clients[id].status = "revoked"
          THEN /\ out' = ClientResponse("revoke_client", id, 400, <<>>)
               /\ UNCHANGED <<db, machine>>
          ELSE IF ~result.success
          THEN /\ out' = ClientResponse("revoke_client", id, 500, <<>>)
               /\ machine' = result.machine
               /\ UNCHANGED db
          ELSE /\ db' = [db EXCEPT !.vpn_clients[id] =
                                       [status |-> "revoked", is_enabled |-> FALSE]]
               /\ machine' = result.machine
               /\ out' = ClientResponse("revoke_client", id, 200, <<>>)
       /\ UNCHANGED general

\* DELETE /openvpn/clients/{id}
DeleteClient(id, revoke, crl, keeps_files) ==
    /\ IF ~ClientFound(id)
       THEN /\ out' = ClientResponse("delete_client", id, 404, <<>>)
            /\ UNCHANGED <<db, machine>>
       ELSE /\ machine' = IF db.vpn_clients[id].status # "revoked"
                          THEN RevokeClientCertificate(machine, id, revoke, crl,
                                                       keeps_files).machine
                          ELSE machine
            /\ db' = [db EXCEPT !.vpn_clients[id] = [status |-> "deleted", is_enabled |-> FALSE]]
            /\ out' = ClientResponse("delete_client", id, 204, <<>>)
    /\ UNCHANGED general

\* generate_client_config for the client: in production the certificate and
\* the key of the client are read from the host, and a missing file is
\* answered None like every other exception
ClientConfigOf(rev, id) ==
    IF machine.is_production /\ id \notin machine.issued THEN NoConfig
    ELSE GenerateClientConfigText(rev, db.settings, general, ClientName, NoneStr,
                                  db.settings.port, db.settings.protocol, "default")

\* GET /openvpn/clients/{id}/config
GetClientConfigById(rev, id) ==
    /\ out' = IF ~ClientFound(id) THEN ClientResponse("get_client_config", id, 404, <<>>)
              ELSE IF db.vpn_clients[id].status # "active"
              THEN ClientResponse("get_client_config", id, 400, <<>>)
              ELSE IF ClientConfigOf(rev, id) = NoConfig
              THEN ClientResponse("get_client_config", id, 500, <<>>)
              ELSE ClientResponse("get_client_config", id, 200, ClientConfigOf(rev, id))
    /\ UNCHANGED <<db, general, machine>>

\* GET /openvpn/clients/{id}/config/download
DownloadClientConfig(rev, id) ==
    /\ out' = IF ~ClientFound(id) THEN ClientResponse("download_client_config", id, 404, <<>>)
              ELSE IF ClientConfigOf(rev, id) = NoConfig
              THEN ClientResponse("download_client_config", id, 500, <<>>)
              ELSE ClientResponse("download_client_config", id, 200, ClientConfigOf(rev, id))
    /\ UNCHANGED <<db, general, machine>>

NextClients ==
    \/ \E id \in ClientIds, outcome \in {"ok", "nonzero"} : CreateClient(id, outcome)
    \/ \E id \in ClientIds, e \in BOOLEAN : UpdateClient(id, e)
    \/ \E id \in ClientIds, revoke, crl \in {"ok", "nonzero"}, keeps \in BOOLEAN :
           RevokeClient(id, revoke, crl, keeps)
    \/ \E id \in ClientIds, revoke, crl \in {"ok", "nonzero"}, keeps \in BOOLEAN :
           DeleteClient(id, revoke, crl, keeps)
    \/ \E rev \in Revisions, id \in ClientIds : GetClientConfigById(rev, id)
    \/ \E rev \in Revisions, id \in ClientIds : DownloadClientConfig(rev, id)

SpecClients == InitClients /\ [][NextClients]_vars

\* C29: a configuration is produced only for an ACTIVE client: once
\* revoke_client has succeeded for a client, neither get_client_config nor
\* download_client_config returns a configuration for it.
C29_NoConfigurationAfterRevocation ==
    (/\ out.op \in {"get_client_config", "download_client_config"}
     /\ "client_id" \in DOMAIN out
     /\ db.vpn_clients[out.client_id].status = "revoked") => out.status # 200

(***************************************************************************)
(* The password users of /vpn-users and the limit enforcement sweep.  Time *)
(* is a counter of the host's clock, a date is a value of that counter,    *)
(* and traffic is counted in units of half a gigabyte.  The sweep treats   *)
(* every user on its own, so one user row is followed.                     *)
(***************************************************************************)
UserIds == {1}
MaxTime == 2
MaxLimitGb == 2
MaxTraffic == 4

\* 1024 ** 3 bytes, in units of half a gigabyte
BytesPerGb == 2

NewUser ==
    [is_enabled |-> TRUE, is_expired |-> FALSE, is_data_limit_exceeded |-> FALSE,
     data_limit_gb |-> NoneInt, expiry_date |-> NoneInt, total_bytes |-> 0]

\* VPNUser.is_active
IsActive(user) == user.is_enabled /\ ~user.is_expired /\ ~user.is_data_limit_exceeded

\* used_gb >= user.data_limit_gb, with used_gb = total_bytes / (1024 ** 3)
UsedAtLeast(user, limit_gb) == user.total_bytes >= limit_gb * BytesPerGb

InitUsers ==
    /\ db = [settings |-> DefaultSettings, vpn_users |-> [id \in UserIds |-> NewUser]]
    /\ general = DefaultGeneral
    /\ machine = [is_production |-> TRUE, now |-> 0]
    /\ out = Idle

UserResponse(op, id, status) ==
    [op |-> op, os |-> "", server_address |-> NoneStr, user_id |-> id, status |-> status,
     result |-> <<>>]

\* the clock of the host advances
Tick ==
    /\ machine.now < MaxTime
    /\ machine' = [machine EXCEPT !.now = @ + 1]
    /\ out' = UserResponse("tick", 0, 0)
    /\ UNCHANGED <<db, general>>

\* the traffic of a connected user is accounted
AccountTraffic(id) ==
    /\ IsActive(db.vpn_users[id])
    /\ db.vpn_users[id].total_bytes < MaxTraffic
    /\ db' = [db EXCEPT !.vpn_users[id].total_bytes = @ + 1]
    /\ out' = UserResponse("account_traffic", id, 0)
    /\ UNCHANGED <<general, machine>>

NoUpdate ==
    [data_limit_gb |-> NoneInt, add_data_gb |-> NoneInt, expiry_date |-> NoneInt,
     extend_days |-> NoneInt, is_enabled |-> NoneStr]

\* the payloads of update_user, is_enabled as the text of the JSON value: one
\* field set, or the limit and the expiry changed together with is_enabled
UserUpdates ==
    {[NoUpdate EXCEPT !.data_limit_gb = l] : l \in 0..MaxLimitGb}
    \cup {[NoUpdate EXCEPT !.add_data_gb = a] : a \in {0, 1}}
    \cup {[NoUpdate EXCEPT !.expiry_date = d] : d \in 0..MaxTime}
    \cup {[NoUpdate EXCEPT !.extend_days = 1]}
    \cup {[NoUpdate EXCEPT !.is_enabled = e] : e \in {"true", "false"}}
    \cup {[NoUpdate EXCEPT !.data_limit_gb = l, !.is_enabled = "true"] : l \in 0..MaxLimitGb}
    \cup {[NoUpdate EXCEPT !.expiry_date = d, !.is_enabled = "true"] : d \in 0..MaxTime}

\* the fields of update_user in the order the handler applies them
UpdatedUser(user, p, now) ==
    LET u1 == IF p.data_limit_gb # NoneInt
              THEN [user EXCEPT !.data_limit_gb = p.data_limit_gb,
                                !.is_data_limit_exceeded = FALSE]
              ELSE user
        u2 == IF p.add_data_gb # NoneInt
              THEN [u1 EXCEPT !.data_limit_gb = IntOr(u1.data_limit_gb, 0) + p.add_data_gb,
                              !.is_data_limit_exceeded = FALSE]
              ELSE u1
        u3 == IF p.expiry_date # NoneInt
              THEN [u2 EXCEPT !.expiry_date = p.expiry_date, !.is_expired = FALSE]
              ELSE u2
        base_date == IF u3.expiry_date # NoneInt /\ u3.expiry_date > now
                     THEN u3.expiry_date ELSE now
        u4 == IF p.extend_days # NoneInt
              THEN [u3 EXCEPT !.expiry_date = base_date + p.extend_days, !.is_expired = FALSE]
              ELSE u3
    IN IF p.is_enabled # NoneStr THEN [u4 EXCEPT !.is_enabled = p.is_enabled = "true"] ELSE u4

\* PATCH /vpn-users/{id}, user found
UpdateUser(id, p) ==
    LET user == UpdatedUser(db.vpn_users[id], p, machine.now)
    IN /\ user.data_limit_gb # NoneInt => user.data_limit_gb <= MaxLimitGb
       /\ user.expiry_date # NoneInt => user.expiry_date <= MaxTime + 1
       /\ db' = [db EXCEPT !.vpn_users[id] = user]
       /\ out' = UserResponse("update_user", id, 200)
       /\ UNCHANGED <<general, machine>>

\* the body of the sweep's loop for one enabled user
Enforced(user, now) ==
    LET expires == /\ user.expiry_date # NoneInt /\ now > user.expiry_date
                   /\ ~user.is_expired
        exceeds == /\ Truthy(user.data_limit_gb)
                   /\ UsedAtLeast(user, user.data_limit_gb)
                   /\ ~user.is_data_limit_exceeded
    IN [user EXCEPT !.is_expired = @ \/ expires,
                    !.is_data_limit_exceeded = @ \/ exceeds,
                    !.is_enabled = @ /\ ~(expires \/ exceeds)]

\* LimitEnforcementScheduler.enforce_limits: every enabled user is checked and
\* the changes are committed together; an exception rolls all of them back
EnforceLimits(fails) ==
    /\ IF fails
       THEN /\ out' = UserResponse("enforce_limits", 0, 500)
            /\ UNCHANGED db
       ELSE /\ db' = [db EXCEPT !.vpn_users =
                         [id \in UserIds |-> IF db.vpn_users[id].is_enabled
                                             THEN Enforced(db.vpn_users[id], machine.now)
                                             ELSE db.vpn_users[id]]]
            /\ out' = UserResponse("enforce_limits", 0, 200)
    /\ UNCHANGED <<general, machine>>

\* verify_credentials of the auth-user-pass script, user found
VerifyCredentials(id, password_matches) ==
    /\ out' = [UserResponse("verify_credentials", id, 0) EXCEPT
                  !.result = IsActive(db.vpn_users[id]) /\ password_matches]
    /\ UNCHANGED <<db, general, machine>>

NextUsers ==
    \/ Tick
    \/ \E id \in UserIds : AccountTraffic(id)
    \/ \E id \in UserIds, p \in UserUpdates : UpdateUser(id, p)
    \/ \E fails \in BOOLEAN : EnforceLimits(fails)
    \/ \E id \in UserIds, matches \in BOOLEAN : VerifyCredentials(id, matches)

SpecUsers == InitUsers /\ [][NextUsers]_vars

\* now > expiry_date
ExpiryPassed(user) == user.expiry_date # NoneInt /\ machine.now > user.expiry_date

\* the user has a data limit and the usage is not below it
LimitReached(user) == user.data_limit_gb # NoneInt /\ UsedAtLeast(user, user.data_limit_gb)

SweepCompleted == out.op = "enforce_limits" /\ out.status = 200

\* C30: immediately after a run of enforce_limits that completes without
\* error, no user whose expiry date has passed or whose usage has reached
\* the data limit is able to connect, whatever update_user calls and
\* earlier sweeps preceded the run.
C30_SweepLeavesNoOverdueUserActive ==
    SweepCompleted =>
        \A id \in UserIds :
            (ExpiryPassed(db.vpn_users[id]) \/ LimitReached(db.vpn_users[id]))
                => ~IsActive(db.vpn_users[id])

====
